---- MODULE Spec2Model ----
(***************************************************************************)
(* State-machine model of the capture objects of ProcTap:                  *)
(*   - MacOSNativeBackend   (src/proctap/backends/macos_pyobjc.py)         *)
(*   - ScreenCaptureBackend (src/proctap/backends/macos_screencapture.py)  *)
(*   - ProcessAudioTap      (src/processaudiotap/core.py)                  *)
(* One object is under test in a behaviour; `kind` says which.             *)
(***************************************************************************)
EXTENDS Integers, Sequences, FiniteSets, TLC

\* ------------------------------------------------------------------ bounds
\* chunks the audio source delivers in a run that exercises queue overflow
MaxChunks == 102
\* chunks the audio source delivers in a run that exercises the lifecycle
LifeChunks == 2
\* chunks the helper writes in a run that exercises short writes and odd read sizes
ByteChunks == 2
\* start calls made by the caller in a lifecycle run
MaxStarts == 2
\* stop calls made by the caller in a lifecycle run
MaxStops == 2
\* OS calls that fail or raise in a lifecycle run
MaxFaults == 2

\* timeout periods a read call may wait out
MaxReadTimeouts == 2
\* chunk-sized writes the helper's pipe holds unread
MaxPipeChunks == 1

\* ------------------------------------------------------- program constants
\* queue.Queue(maxsize=100) of MacOSNativeBackend
AudioQueueMaxSize == 100
\* queue.Queue(maxsize=100) of ScreenCaptureBackend
ScQueueMaxSize == 100
\* ScreenCaptureBackend.__init__ defaults and read's default num_frames
SampleRate == 48000
Channels == 2
SampleWidth == 2
DefaultNumFrames == 1024
\* chunk_duration_ms of _reader_worker
ChunkDurationMs == 10

\* Python's None, for fields that hold None or a non-negative integer
None == -1

VARIABLES
    kind,                 \* which object this behaviour exercises
    scn,                  \* what the environment does in this run (see Scenarios)
    produced,             \* chunks delivered by the source so far (chunk ids)
    starts,               \* start calls made so far
    stops,                \* stop calls made so far
    faults,               \* OS failures injected so far
    \* ---- MacOSNativeBackend fields
    process_object_id,
    tap_device_id,
    aggregate_device_id,
    io_proc_id,
    tap_uuid,
    io_callback,
    tap_format,
    is_running,
    audio_queue,
    \* ---- MacOSNativeBackend: caller thread position and call record
    t_pc,                 \* position of the caller inside start / stop
    t_op,                 \* handler in progress: "none", "start", "stop"
    t_ret,                \* how the last handler returned
    t_calls,              \* OS calls issued by the handler in progress / last handler
    t_raised,             \* those of t_calls that raised or reported failure
    t_read,               \* value returned by the last read (None or chunk id)
    \* ---- Core Audio state
    os_next_id,           \* next AudioObjectID the system hands out
    os_taps,              \* process taps alive in the system
    os_aggs,              \* aggregate devices alive in the system
    os_ioprocs,           \* IOProcs installed in the system
    os_started,           \* the aggregate device is started (callbacks fire)
    os_ioproc_dev,        \* the device the last AudioDeviceCreateIOProcID was issued on
    os_start_dev,         \* the device the last AudioDeviceStart was issued to
    os_default_uid,       \* UID of the system's current default output device
    os_agg_desc,          \* sub-device keys of the last aggregate-device description
    os_session_base,      \* buffers Core Audio had delivered when the last start began
    created,              \* every object id this instance created
    destroy_issued,       \* every object id a destroy call was issued for
    destroy_failed,       \* every object id whose destroy call raised
    \* ---- ScreenCaptureBackend fields
    sc_process,           \* self._process: None or the helper spawned by start number n
    sc_reader_thread,     \* self._reader_thread: None or the reader spawned by start n
    sc_queue,             \* self._audio_queue
    sc_callback,          \* self._callback: None or the on_data given to start n
    sc_running,           \* self._running
    \* ---- ScreenCaptureBackend: threads and call record
    sc_pc,                \* position of the caller inside stop
    sc_ret,               \* how the last start / stop returned
    sc_calls,             \* subprocess calls issued by the last start / stop
    rdr_pc,               \* position of each reader thread in _reader_worker
    rdr_data,             \* the chunk each reader thread holds
    sc_rd_pc,             \* position of the consumer inside read
    sc_rd_need,           \* total_bytes_needed of the read in progress
    sc_rd_chunks,         \* chunks taken by the read in progress
    sc_rd_timeouts,       \* timeout periods the read in progress has waited out
    sc_rd_ret,            \* byte ranges returned by the last read
    sc_cb_chunk,          \* chunk passed to the last callback invocation
    sc_cb_owner,          \* start call whose on_data the last invocation ran
    sc_cb_frames,         \* frame_count passed to the last callback invocation
    \* ---- the helper processes and the pipe
    helper,               \* state of the helper spawned by each start call
    pipe_bytes,           \* bytes written by the current helper and not yet read
    stream_off,           \* bytes read from the pipes so far
    \* ---- ProcessAudioTap fields
    on_data,              \* self._on_data is not None
    thread,               \* self._thread: None or the worker spawned by start number n
    stop_event,           \* self._stop_event is set
    async_queue,          \* self._async_queue (chunk ids; None is the sentinel)
    \* ---- ProcessAudioTap: threads and call record
    co_pc,                \* position of the caller inside stop
    co_ret,               \* how the last completed start / stop returned
    co_calls,             \* calls on self._loopback by the start / stop in progress or last
    wk_pc,                \* position of each worker thread in _worker
    wk_data,              \* the chunk each worker holds
    wk_cb_raised,         \* the callback raised for the chunk the worker holds
    wk_stopped,           \* stop has set the flag since the worker was spawned
    wk_reads_after,       \* backend reads the worker started since then
    co_cb_last,           \* chunk passed to the last callback invocation
    co_cb_frames,         \* frame count passed to the last callback invocation
    co_yield_last,        \* chunk last yielded by iter_chunks
    co_sentinels,         \* sentinels taken by iter_chunks so far
    \* ---- the WASAPI loopback object as the coordinator drives it
    lb_calls,             \* calls made on self._loopback, per method
    lb_raised,            \* methods of self._loopback that raised in the last stop
    lb_open,              \* initialize() returned True and cleanup() was not called since
    lb_capturing,         \* start_capture() returned True and stop_capture() was not called since
    \* ---- NativeAudioConverter
    cv_env,               \* constructor argument and whether libsamplerate is available
    cv_quality,           \* self.quality
    cv_quality_str,       \* self.quality_str
    cv_ret,               \* the last call on the converter and its result
    \* ---- WindowsBackend
    w_env,                \* constructor arguments and the native format of the endpoint
    w_native_converter,   \* self._native_converter is set
    w_native_src_format,  \* self._native_src_format
    w_converter,          \* self._converter: None or the formats it converts between
    w_output_format,      \* self._output_format
    w_started,            \* the native capture is started
    w_ret,                \* the last call on the backend and its result
    \* ---- get_backend and the constructors it calls
    g_env,                \* the platform: system, macOS version, what is available
    g_ret,                \* the last call and its result
    \* ---- contrib.filters: EnergyVAD
    v_h,                  \* hangover_frames
    v_is_speech,          \* self.is_speech
    v_hang,               \* hangover frames left
    v_quiet_run,          \* frames below the threshold since the last one above it
    v_frames,             \* frames processed
    \* ---- contrib.filters: FilterChain
    fc_built,             \* the constructor returned a chain
    fc_chain,             \* the filters of the chain, in order
    fc_before,            \* the filters before the last call
    fc_ret                \* the last call and its result

envVars  == <<kind, scn>>
cntVars  == <<produced, starts, stops, faults>>
tapFields == <<process_object_id, tap_device_id, aggregate_device_id, io_proc_id,
               tap_uuid, io_callback, tap_format, is_running, audio_queue>>
tapHandles == <<process_object_id, tap_device_id, aggregate_device_id, io_proc_id,
                tap_uuid, io_callback>>
tapCtl   == <<t_pc, t_op, t_ret, t_calls, t_raised>>
osCalls  == <<os_ioproc_dev, os_start_dev, os_default_uid, os_agg_desc, os_session_base>>
osVars   == <<os_next_id, os_taps, os_aggs, os_ioprocs, os_started, created, destroy_issued,
              destroy_failed, osCalls>>
tapVars  == <<tapFields, tapCtl, t_read, osVars>>

scFields == <<sc_process, sc_reader_thread, sc_queue, sc_callback, sc_running>>
scCtl    == <<sc_pc, sc_ret, sc_calls>>
scReader == <<rdr_pc, rdr_data>>
scRead   == <<sc_rd_pc, sc_rd_need, sc_rd_chunks, sc_rd_timeouts, sc_rd_ret>>
scCb     == <<sc_cb_chunk, sc_cb_owner, sc_cb_frames>>
scOs     == <<helper, pipe_bytes, stream_off>>
scVars   == <<scFields, scCtl, scReader, scRead, scCb, scOs>>

coFields == <<on_data, thread, stop_event, async_queue>>
coCtl    == <<co_pc, co_ret, co_calls>>
coWorker == <<wk_pc, wk_data, wk_cb_raised, wk_stopped, wk_reads_after>>
coGhost  == <<co_cb_last, co_cb_frames, co_yield_last, co_sentinels>>
coLb     == <<lb_calls, lb_raised, lb_open, lb_capturing>>
coVars   == <<coFields, coCtl, coWorker, coGhost, coLb>>

cvVars   == <<cv_env, cv_quality, cv_quality_str, cv_ret>>
winVars  == <<w_env, w_native_converter, w_native_src_format, w_converter, w_output_format,
              w_started, w_ret>>

selVars  == <<g_env, g_ret>>
fltVars  == <<v_h, v_is_speech, v_hang, v_quiet_run, v_frames,
              fc_built, fc_chain, fc_before, fc_ret>>

nonTapVars == <<scVars, coVars, cvVars, winVars, selVars, fltVars>>
nonScVars  == <<tapVars, coVars, cvVars, winVars, selVars, fltVars>>
nonCoVars  == <<tapVars, scVars, cvVars, winVars, selVars, fltVars>>
nonCvVars  == <<cntVars, tapVars, scVars, coVars, winVars, selVars, fltVars>>
nonWinVars == <<cntVars, tapVars, scVars, coVars, cvVars, selVars, fltVars>>
nonSelVars == <<cntVars, tapVars, scVars, coVars, cvVars, winVars>>

vars == <<envVars, cntVars, tapVars, scVars, coVars, cvVars, winVars, selVars, fltVars>>

\* a cleanup that gives up at the first call that raised
TruthyUntilRaised(x) == x # None /\ x # 0 /\ t_raised = {}

\* a cleanup that releases nothing when start is the caller
TruthyWhenStopping(x) == x # None /\ x # 0 /\ t_op = "stop"

\* Python truthiness of an Optional[int] field: None and 0 are falsy
Truthy(x) == x # None /\ x # 0

\* ------------------------------------------------------------ queue.Queue
\* Queue.put_nowait / put(block=False): raises queue.Full when the queue holds
\* maxsize items (maxsize <= 0: unbounded); the callers catch Full and drop.
QueueFull(q, maxsize) == maxsize > 0 /\ Len(q) >= maxsize

PutNowait(q, x, maxsize) ==
    IF QueueFull(q, maxsize) THEN q ELSE Append(q, x)

\* Queue.get: the item at the head (FIFO)
QueueGet(q) == Head(q)

QueueRest(q) == Tail(q)

\* ------------------------------------------------------------------- Init
\* The kinds of run: a long single session (queue overflow reachable), a short
\* run in which the helper writes partial chunks and read is given odd sizes,
\* a short run of several start / stop calls, a short run of one session with
\* injected failures, and (for the tap backend) both at once.
ScnOverflow ==
    [chunks |-> MaxChunks, nstarts |-> 1, nstops |-> 0, nfaults |-> 0, short |-> FALSE]

ScnBytes ==
    [chunks |-> ByteChunks, nstarts |-> 1, nstops |-> 1, nfaults |-> 0, short |-> TRUE]

ScnRestart ==
    [chunks |-> LifeChunks, nstarts |-> MaxStarts, nstops |-> MaxStops,
     nfaults |-> 0, short |-> FALSE]

ScnFaults ==
    [chunks |-> LifeChunks, nstarts |-> 1, nstops |-> MaxStops,
     nfaults |-> MaxFaults, short |-> FALSE]

ScnLifecycle ==
    [chunks |-> LifeChunks, nstarts |-> MaxStarts, nstops |-> MaxStops,
     nfaults |-> MaxFaults, short |-> FALSE]

Scenarios(k) ==
    IF k = "tap" THEN {ScnOverflow, ScnLifecycle}
    ELSE IF k = "sc" THEN {ScnOverflow, ScnBytes, ScnRestart, ScnFaults}
    ELSE IF k = "co" THEN {ScnOverflow, ScnRestart, ScnFaults}
    ELSE {ScnBytes}

InitEnv(k) ==
    /\ kind = k
    /\ scn \in Scenarios(k)
    /\ produced = 0
    /\ starts = 0
    /\ stops = 0
    /\ faults = 0

\* the output devices the system default can be
DeviceUIDs == {"BuiltInSpeakerDevice", "AppleUSBAudioEngine:Headset"}

\* MacOSNativeBackend.__init__
InitTap ==
    /\ process_object_id = None
    /\ tap_device_id = None
    /\ aggregate_device_id = None
    /\ io_proc_id = None
    /\ tap_uuid = None
    /\ io_callback = None
    /\ tap_format = None
    /\ is_running = FALSE
    /\ audio_queue = <<>>
    /\ t_pc = "idle"
    /\ t_op = "none"
    /\ t_ret = "none"
    /\ t_calls = <<>>
    /\ t_raised = {}
    /\ t_read = None
    /\ os_next_id = 1
    /\ os_taps = {}
    /\ os_aggs = {}
    /\ os_ioprocs = {}
    /\ os_started = FALSE
    /\ os_ioproc_dev = None
    /\ os_start_dev = None
    /\ os_default_uid \in IF kind = "tap" THEN DeviceUIDs ELSE {"BuiltInSpeakerDevice"}
    /\ os_agg_desc = <<>>
    /\ os_session_base = 0
    /\ created = {}
    /\ destroy_issued = {}
    /\ destroy_failed = {}

\* an OS call may fail while the environment still has failures to inject
CanFail == faults < scn.nfaults

Outcomes == IF CanFail THEN {"ok", "fail"} ELSE {"ok"}

Fault(o) == faults' = IF o = "ok" THEN faults ELSE faults + 1

\* ---------------------------------------------- MacOSNativeBackend.start
\* a start without the is_running test
TapStartCallUnguarded ==
    /\ kind = "tap"
    /\ t_pc = "idle"
    /\ starts < scn.nstarts
    /\ starts' = starts + 1
    /\ t_pc' = "translate"
    /\ t_op' = "start"
    /\ t_ret' = "none"
    /\ t_calls' = <<>>
    /\ t_raised' = {}
    /\ os_session_base' = produced
    /\ UNCHANGED nonTapVars
    /\ UNCHANGED <<envVars, produced, stops, faults, tapFields, t_read, os_next_id, os_taps,
                   os_aggs, os_ioprocs, os_started, created, destroy_issued, destroy_failed,
                   os_ioproc_dev, os_start_dev, os_default_uid, os_agg_desc>>

\* start(): returns at once when already running, else enters the try block
TapStartCall ==
    /\ kind = "tap"
    /\ t_pc = "idle"
    /\ starts < scn.nstarts
    /\ starts' = starts + 1
    /\ IF is_running
          THEN /\ t_ret' = "start_noop"
               /\ t_calls' = <<>>
               /\ t_raised' = {}
               /\ UNCHANGED <<t_pc, t_op, os_session_base>>
          ELSE /\ t_pc' = "translate"
               /\ t_op' = "start"
               /\ t_ret' = "none"
               /\ t_calls' = <<>>
               /\ t_raised' = {}
               /\ os_session_base' = produced
    /\ UNCHANGED nonTapVars
    /\ UNCHANGED <<envVars, produced, stops, faults, tapFields, t_read, os_next_id, os_taps,
                   os_aggs, os_ioprocs, os_started, created, destroy_issued, destroy_failed,
                   os_ioproc_dev, os_start_dev, os_default_uid, os_agg_desc>>

\* a start that goes on with audio object 0 when the translation failed
TapTranslateZeroAccepted ==
    /\ kind = "tap"
    /\ t_pc = "translate"
    /\ \E o \in Outcomes :
          /\ Fault(o)
          /\ t_calls' = Append(t_calls, "TranslatePID")
          /\ process_object_id' = IF o = "ok" THEN 1 ELSE 0
          /\ t_raised' = IF o = "ok" THEN t_raised ELSE t_raised \cup {"TranslatePID"}
    /\ t_pc' = "create_tap"
    /\ UNCHANGED nonTapVars
    /\ UNCHANGED <<envVars, produced, starts, stops, tap_device_id, aggregate_device_id,
                   io_proc_id, tap_uuid, io_callback, tap_format, is_running,
                   audio_queue, t_op, t_ret, t_read, osVars>>

\* Step 1: ProcessAudioDiscovery.get_process_object_id returns None when the
\* translation reports a status other than 0 or yields object 0 (an exception
\* inside it is re-raised); None raises RuntimeError inside the try block
TapTranslate ==
    /\ kind = "tap"
    /\ t_pc = "translate"
    /\ \E o \in Outcomes :
          /\ Fault(o)
          /\ t_calls' = Append(t_calls, "TranslatePID")
          /\ IF o = "ok"
                THEN /\ process_object_id' = 1
                     /\ t_pc' = "create_tap"
                     /\ UNCHANGED t_raised
                ELSE /\ process_object_id' = None
                     /\ t_pc' = "cl_stop"
                     /\ t_raised' = t_raised \cup {"TranslatePID"}
    /\ UNCHANGED nonTapVars
    /\ UNCHANGED <<envVars, produced, starts, stops, tap_device_id, aggregate_device_id,
                   io_proc_id, tap_uuid, io_callback, tap_format, is_running,
                   audio_queue, t_op, t_ret, t_read, osVars>>

\* Steps 2-3: tap description with a fresh UUID, AudioHardwareCreateProcessTap
TapCreateTap ==
    /\ kind = "tap"
    /\ t_pc = "create_tap"
    /\ tap_uuid' = starts
    /\ t_calls' = Append(t_calls, "CreateProcessTap")
    /\ \E o \in Outcomes :
          /\ Fault(o)
          /\ IF o = "ok"
                THEN /\ tap_device_id' = os_next_id
                     /\ os_next_id' = os_next_id + 1
                     /\ os_taps' = os_taps \cup {os_next_id}
                     /\ created' = created \cup {os_next_id}
                     /\ t_pc' = "read_format"
                     /\ UNCHANGED t_raised
                ELSE /\ t_pc' = "cl_stop"
                     /\ t_raised' = t_raised \cup {"CreateProcessTap"}
                     /\ UNCHANGED <<tap_device_id, os_next_id, os_taps, created>>
    /\ UNCHANGED nonTapVars
    /\ UNCHANGED <<envVars, produced, starts, stops, process_object_id, aggregate_device_id,
                   io_proc_id, io_callback, tap_format, is_running, audio_queue,
                   t_op, t_ret, t_read, os_aggs, os_ioprocs, os_started, destroy_issued,
                   destroy_failed,
                   osCalls>>

\* Step 3.5: read kAudioTapPropertyFormat; every failure is only logged
TapReadFormat ==
    /\ kind = "tap"
    /\ t_pc = "read_format"
    /\ t_calls' = Append(t_calls, "GetTapFormat")
    /\ \E o \in Outcomes :
          /\ Fault(o)
          /\ IF o = "ok"
                THEN /\ tap_format' = 1
                     /\ UNCHANGED t_raised
                ELSE /\ t_raised' = t_raised \cup {"GetTapFormat"}
                     /\ UNCHANGED tap_format
    /\ t_pc' = "create_agg"
    /\ UNCHANGED nonTapVars
    /\ UNCHANGED <<envVars, produced, starts, stops, tapHandles, is_running, audio_queue,
                   t_op, t_ret, t_read, osVars>>

\* get_default_output_device_uid: the UID of the built-in speaker, whatever
\* the default output device is
GetDefaultOutputDeviceUid == "BuiltInSpeakerDevice"

\* Steps 4-5: output UID, AudioHardwareCreateAggregateDevice through ctypes
TapCreateAggregate ==
    /\ kind = "tap"
    /\ t_pc = "create_agg"
    /\ t_calls' = t_calls \o <<"GetOutputUID", "CreateAggregateDevice">>
    /\ os_agg_desc' = <<[main_sub_device |-> GetDefaultOutputDeviceUid,
                         sub_device_list |-> <<GetDefaultOutputDeviceUid>>]>>
    /\ \E o \in Outcomes :
          /\ Fault(o)
          /\ IF o = "ok"
                THEN /\ aggregate_device_id' = os_next_id
                     /\ os_next_id' = os_next_id + 1
                     /\ os_aggs' = os_aggs \cup {os_next_id}
                     /\ created' = created \cup {os_next_id}
                     /\ t_pc' = "setup_io"
                     /\ UNCHANGED t_raised
                ELSE /\ t_pc' = "cl_stop"
                     /\ t_raised' = t_raised \cup {"CreateAggregateDevice"}
                     /\ UNCHANGED <<aggregate_device_id, os_next_id, os_aggs, created>>
    /\ UNCHANGED nonTapVars
    /\ UNCHANGED <<envVars, produced, starts, stops, process_object_id, tap_device_id,
                   io_proc_id, tap_uuid, io_callback, tap_format, is_running,
                   audio_queue, t_op, t_ret, t_read, os_taps, os_ioprocs, os_started,
                   destroy_issued, destroy_failed,
                   os_ioproc_dev, os_start_dev, os_default_uid, os_session_base>>

\* an IOProc installed on the process tap instead of the aggregate device
IOProcDeviceTap == tap_device_id

\* _setup_io_proc: the first argument of AudioDeviceCreateIOProcID
IOProcDevice == aggregate_device_id

\* _start_device: the first argument of AudioDeviceStart
StartDevice == aggregate_device_id

\* Step 6: _setup_io_proc: AudioDeviceCreateIOProcID on the aggregate device
TapSetupIOProc ==
    /\ kind = "tap"
    /\ t_pc = "setup_io"
    /\ IF aggregate_device_id = None
          THEN /\ t_pc' = "cl_stop"
               /\ UNCHANGED <<io_callback, io_proc_id, t_calls, t_raised, faults,
                              os_next_id, os_ioprocs, os_ioproc_dev, created>>
          ELSE /\ io_callback' = 1
               /\ t_calls' = Append(t_calls, "CreateIOProcID")
               /\ os_ioproc_dev' = IOProcDevice
               /\ \E o \in Outcomes :
                     /\ Fault(o)
                     /\ IF o = "ok"
                           THEN /\ io_proc_id' = os_next_id
                                /\ os_next_id' = os_next_id + 1
                                /\ os_ioprocs' = os_ioprocs \cup {os_next_id}
                                /\ created' = created \cup {os_next_id}
                                /\ t_pc' = "start_dev"
                                /\ UNCHANGED t_raised
                           ELSE /\ t_pc' = "cl_stop"
                                /\ t_raised' = t_raised \cup {"CreateIOProcID"}
                                /\ UNCHANGED <<io_proc_id, os_next_id, os_ioprocs, created>>
    /\ UNCHANGED nonTapVars
    /\ UNCHANGED <<envVars, produced, starts, stops, process_object_id, tap_device_id,
                   aggregate_device_id, tap_uuid, tap_format, is_running, audio_queue,
                   t_op, t_ret, t_read, os_taps, os_aggs, os_started, destroy_issued,
                   destroy_failed,
                   os_start_dev, os_default_uid, os_agg_desc, os_session_base>>

\* Step 7: _start_device: AudioDeviceStart; on success _is_running = True
TapStartDevice ==
    /\ kind = "tap"
    /\ t_pc = "start_dev"
    /\ IF aggregate_device_id = None \/ io_proc_id = None
          THEN /\ t_pc' = "cl_stop"
               /\ UNCHANGED <<t_calls, t_raised, faults, os_started, os_start_dev,
                              is_running, t_op, t_ret>>
          ELSE /\ t_calls' = Append(t_calls, "DeviceStart")
               /\ os_start_dev' = StartDevice
               /\ \E o \in Outcomes :
                     /\ Fault(o)
                     /\ IF o = "ok"
                           THEN /\ os_started' = TRUE
                                /\ is_running' = TRUE
                                /\ t_pc' = "idle"
                                /\ t_op' = "none"
                                /\ t_ret' = "start_ok"
                                /\ UNCHANGED t_raised
                           ELSE /\ t_pc' = "cl_stop"
                                /\ t_raised' = t_raised \cup {"DeviceStart"}
                                /\ UNCHANGED <<os_started, is_running, t_op, t_ret>>
    /\ UNCHANGED nonTapVars
    /\ UNCHANGED <<envVars, produced, starts, stops, tapHandles, tap_format, audio_queue,
                   t_read, os_next_id, os_taps, os_aggs, os_ioprocs, created,
                   destroy_issued, destroy_failed,
                   os_ioproc_dev, os_default_uid, os_agg_desc, os_session_base>>

\* ----------------------------------------------- MacOSNativeBackend.stop
\* a stop without the `if not self._is_running: return` guard
TapStopCallUnguarded ==
    /\ kind = "tap"
    /\ t_pc = "idle"
    /\ stops < scn.nstops
    /\ stops' = stops + 1
    /\ t_calls' = <<>>
    /\ t_raised' = {}
    /\ t_pc' = "cl_stop"
    /\ t_op' = "stop"
    /\ t_ret' = "none"
    /\ UNCHANGED nonTapVars
    /\ UNCHANGED <<envVars, produced, starts, faults, tapFields, t_read, osVars>>

\* stop(): returns at once when not running, else runs _cleanup
TapStopCall ==
    /\ kind = "tap"
    /\ t_pc = "idle"
    /\ stops < scn.nstops
    /\ stops' = stops + 1
    /\ t_calls' = <<>>
    /\ t_raised' = {}
    /\ IF ~is_running
          THEN /\ t_ret' = "stop_noop"
               /\ UNCHANGED <<t_pc, t_op>>
          ELSE /\ t_pc' = "cl_stop"
               /\ t_op' = "stop"
               /\ t_ret' = "none"
    /\ UNCHANGED nonTapVars
    /\ UNCHANGED <<envVars, produced, starts, faults, tapFields, t_read, osVars>>

\* ------------------------------------------- MacOSNativeBackend._cleanup
\* AudioDeviceStop, when both handles are set; an exception is logged
TapCleanupStop ==
    /\ kind = "tap"
    /\ t_pc = "cl_stop"
    /\ t_pc' = "cl_ioproc"
    /\ IF Truthy(aggregate_device_id) /\ Truthy(io_proc_id)
          THEN /\ t_calls' = Append(t_calls, "DeviceStop")
               /\ \E o \in Outcomes :
                     /\ Fault(o)
                     /\ IF o = "ok"
                           THEN /\ os_started' = FALSE
                                /\ UNCHANGED t_raised
                           ELSE /\ t_raised' = t_raised \cup {"DeviceStop"}
                                /\ UNCHANGED os_started
          ELSE UNCHANGED <<t_calls, t_raised, faults, os_started>>
    /\ UNCHANGED nonTapVars
    /\ UNCHANGED <<envVars, produced, starts, stops, tapFields, t_op, t_ret, t_read,
                   os_next_id, os_taps, os_aggs, os_ioprocs, created, destroy_issued,
                   destroy_failed,
                   osCalls>>

\* a cleanup that never destroys the IOProc
TapCleanupIOProcSkipped ==
    /\ kind = "tap"
    /\ t_pc = "cl_ioproc"
    /\ t_pc' = "cl_agg"
    /\ UNCHANGED nonTapVars
    /\ UNCHANGED <<envVars, cntVars, tapFields, t_op, t_ret, t_calls, t_raised, t_read, osVars>>

\* AudioDeviceDestroyIOProcID, when both handles are set
TapCleanupIOProc ==
    /\ kind = "tap"
    /\ t_pc = "cl_ioproc"
    /\ t_pc' = "cl_agg"
    /\ IF Truthy(aggregate_device_id) /\ Truthy(io_proc_id)
          THEN /\ t_calls' = Append(t_calls, "DestroyIOProcID")
               /\ destroy_issued' = destroy_issued \cup {io_proc_id}
               /\ \E o \in Outcomes :
                     /\ Fault(o)
                     /\ IF o = "ok"
                           THEN /\ os_ioprocs' = os_ioprocs \ {io_proc_id}
                                /\ os_started' = FALSE
                                /\ UNCHANGED <<t_raised, destroy_failed>>
                           ELSE /\ t_raised' = t_raised \cup {"DestroyIOProcID"}
                                /\ destroy_failed' = destroy_failed \cup {io_proc_id}
                                /\ UNCHANGED <<os_ioprocs, os_started>>
          ELSE UNCHANGED <<t_calls, t_raised, faults, os_ioprocs, os_started, destroy_issued,
                           destroy_failed>>
    /\ UNCHANGED nonTapVars
    /\ UNCHANGED <<envVars, produced, starts, stops, tapFields, t_op, t_ret, t_read,
                   os_next_id, os_taps, os_aggs, created,
                   osCalls>>

\* AudioHardwareDestroyAggregateDevice, when the handle is set
TapCleanupAggregate ==
    /\ kind = "tap"
    /\ t_pc = "cl_agg"
    /\ t_pc' = "cl_tap"
    /\ IF Truthy(aggregate_device_id)
          THEN /\ t_calls' = Append(t_calls, "DestroyAggregateDevice")
               /\ destroy_issued' = destroy_issued \cup {aggregate_device_id}
               /\ \E o \in Outcomes :
                     /\ Fault(o)
                     /\ IF o = "ok"
                           THEN /\ os_aggs' = os_aggs \ {aggregate_device_id}
                                /\ os_started' = FALSE
                                /\ UNCHANGED <<t_raised, destroy_failed>>
                           ELSE /\ t_raised' = t_raised \cup {"DestroyAggregateDevice"}
                                /\ destroy_failed' = destroy_failed \cup {aggregate_device_id}
                                /\ UNCHANGED <<os_aggs, os_started>>
          ELSE UNCHANGED <<t_calls, t_raised, faults, os_aggs, os_started, destroy_issued,
                           destroy_failed>>
    /\ UNCHANGED nonTapVars
    /\ UNCHANGED <<envVars, produced, starts, stops, tapFields, t_op, t_ret, t_read,
                   os_next_id, os_taps, os_ioprocs, created,
                   osCalls>>

\* AudioHardwareDestroyProcessTap, when the handle is set
TapCleanupTap ==
    /\ kind = "tap"
    /\ t_pc = "cl_tap"
    /\ t_pc' = "cl_fin"
    /\ IF Truthy(tap_device_id)
          THEN /\ t_calls' = Append(t_calls, "DestroyProcessTap")
               /\ destroy_issued' = destroy_issued \cup {tap_device_id}
               /\ \E o \in Outcomes :
                     /\ Fault(o)
                     /\ IF o = "ok"
                           THEN /\ os_taps' = os_taps \ {tap_device_id}
                                /\ UNCHANGED <<t_raised, destroy_failed>>
                           ELSE /\ t_raised' = t_raised \cup {"DestroyProcessTap"}
                                /\ destroy_failed' = destroy_failed \cup {tap_device_id}
                                /\ UNCHANGED os_taps
          ELSE UNCHANGED <<t_calls, t_raised, faults, os_taps, destroy_issued, destroy_failed>>
    /\ UNCHANGED nonTapVars
    /\ UNCHANGED <<envVars, produced, starts, stops, tapFields, t_op, t_ret, t_read,
                   os_next_id, os_aggs, os_ioprocs, os_started, created,
                   osCalls>>

\* the finally block of _cleanup, then the caller's tail: start re-raises as
\* RuntimeError, stop clears _is_running
TapCleanupFinally ==
    /\ kind = "tap"
    /\ t_pc = "cl_fin"
    /\ io_callback' = None
    /\ io_proc_id' = None
    /\ aggregate_device_id' = None
    /\ tap_device_id' = None
    /\ process_object_id' = None
    /\ tap_uuid' = None
    /\ IF t_op = "stop"
          THEN /\ is_running' = FALSE
               /\ t_ret' = "stop_done"
          ELSE /\ t_ret' = "start_error"
               /\ UNCHANGED is_running
    /\ t_pc' = "idle"
    /\ t_op' = "none"
    /\ UNCHANGED nonTapVars
    /\ UNCHANGED <<envVars, cntVars, tap_format, audio_queue, t_calls, t_raised,
                   t_read, osVars>>

\* ------------------------------------ the IOProc closure of _setup_io_proc
\* Core Audio invokes the callback while the device is started; a buffer with
\* data is copied and put_nowait into the queue, queue.Full is swallowed.
TapIOProc ==
    /\ kind = "tap"
    /\ os_started
    /\ produced < scn.chunks
    /\ produced' = produced + 1
    /\ audio_queue' = PutNowait(audio_queue, produced + 1, AudioQueueMaxSize)
    /\ UNCHANGED nonTapVars
    /\ UNCHANGED <<envVars, starts, stops, faults, tapHandles, tap_format, is_running,
                   tapCtl, t_read, osVars>>

\* ----------------------------------------------- MacOSNativeBackend.read
\* None when not running; else Queue.get(timeout=0.1), None on queue.Empty
TapRead ==
    /\ kind = "tap"
    /\ IF is_running /\ audio_queue # <<>>
          THEN /\ t_read' = QueueGet(audio_queue)
               /\ audio_queue' = QueueRest(audio_queue)
          ELSE /\ t_read' = None
               /\ UNCHANGED audio_queue
    /\ UNCHANGED nonTapVars
    /\ UNCHANGED <<envVars, cntVars, tapHandles, tap_format, is_running, tapCtl, osVars>>

NextTap ==
    \/ TapStartCall
    \/ TapTranslate
    \/ TapCreateTap
    \/ TapReadFormat
    \/ TapCreateAggregate
    \/ TapSetupIOProc
    \/ TapStartDevice
    \/ TapStopCall
    \/ TapCleanupStop
    \/ TapCleanupIOProc
    \/ TapCleanupAggregate
    \/ TapCleanupTap
    \/ TapCleanupFinally
    \/ TapIOProc
    \/ TapRead

\* ====================================================== ScreenCaptureBackend
BytesPerFrame == Channels * SampleWidth

\* bytes_per_chunk = int(sample_rate * channels * sample_width * 10 / 1000)
BytesPerChunk == (SampleRate * Channels * SampleWidth * ChunkDurationMs) \div 1000

Sessions == 1 .. MaxStarts

\* a chunk is the byte range [off, off + len) of the helper's output
NoChunk == [off |-> -1, len |-> 0]

Min(a, b) == IF a < b THEN a ELSE b

\* sizes of one write of the helper
WriteSizes == IF scn.short THEN {1, BytesPerFrame, BytesPerChunk} ELSE {BytesPerChunk}

\* num_frames arguments the consumer passes to read
NumFramesChoices ==
    IF scn.short THEN {1, BytesPerChunk \div BytesPerFrame, DefaultNumFrames}
    ELSE {BytesPerChunk \div BytesPerFrame}

RECURSIVE TotalLen(_)
TotalLen(cs) == IF cs = <<>> THEN 0 ELSE Head(cs).len + TotalLen(Tail(cs))

\* b"".join(chunks)[:n] as byte ranges
RECURSIVE JoinTruncate(_, _)
JoinTruncate(cs, n) ==
    IF cs = <<>> \/ n <= 0 THEN <<>>
    ELSE IF Head(cs).len <= n
         THEN <<Head(cs)>> \o JoinTruncate(Tail(cs), n - Head(cs).len)
         ELSE <<[off |-> Head(cs).off, len |-> n]>>

\* ScreenCaptureBackend.__init__ (bundle id and helper binary were found)
InitSC ==
    /\ sc_process = None
    /\ sc_reader_thread = None
    /\ sc_queue = <<>>
    /\ sc_callback = None
    /\ sc_running = FALSE
    /\ sc_pc = "idle"
    /\ sc_ret = "none"
    /\ sc_calls = <<>>
    /\ rdr_pc = [i \in Sessions |-> "none"]
    /\ rdr_data = [i \in Sessions |-> NoChunk]
    /\ sc_rd_pc = "idle"
    /\ sc_rd_need = 0
    /\ sc_rd_chunks = <<>>
    /\ sc_rd_timeouts = 0
    /\ sc_rd_ret = <<>>
    /\ sc_cb_chunk = NoChunk
    /\ sc_cb_owner = None
    /\ sc_cb_frames = None
    /\ helper = [i \in Sessions |-> "none"]
    /\ pipe_bytes = 0
    /\ stream_off = 0

\* start(on_data): no-op when running; stores the callback when one is given,
\* spawns the helper (Popen may raise), sets _running, spawns the reader thread
ScStart ==
    /\ kind = "sc"
    /\ sc_pc = "idle"
    /\ starts < scn.nstarts
    /\ starts' = starts + 1
    /\ \E on_data_arg \in BOOLEAN :
         IF sc_running
            THEN /\ sc_ret' = "start_noop"
                 /\ sc_calls' = <<>>
                 /\ UNCHANGED <<scFields, scReader, helper, pipe_bytes, faults>>
            ELSE /\ sc_callback' = IF on_data_arg THEN starts + 1 ELSE sc_callback
                 /\ sc_calls' = <<"Popen">>
                 /\ \E o \in Outcomes :
                       /\ Fault(o)
                       /\ IF o = "ok"
                             THEN /\ sc_process' = starts + 1
                                  /\ helper' = [helper EXCEPT ![starts + 1] = "alive"]
                                  /\ pipe_bytes' = 0
                                  /\ sc_running' = TRUE
                                  /\ sc_reader_thread' = starts + 1
                                  /\ rdr_pc' = [rdr_pc EXCEPT ![starts + 1] = "check"]
                                  /\ sc_ret' = "start_ok"
                                  /\ UNCHANGED <<sc_queue, rdr_data>>
                             ELSE /\ sc_ret' = "start_error"
                                  /\ UNCHANGED <<sc_process, sc_reader_thread, sc_queue,
                                                 sc_running, scReader, helper, pipe_bytes>>
    /\ UNCHANGED nonScVars
    /\ UNCHANGED <<envVars, produced, stops, sc_pc, scRead, scCb, stream_off>>

\* stop(): returns at once when not running; else clears _running and sends
\* terminate to the helper
ScStopCall ==
    /\ kind = "sc"
    /\ sc_pc = "idle"
    /\ stops < scn.nstops
    /\ stops' = stops + 1
    /\ IF ~sc_running
          THEN /\ sc_ret' = "stop_noop"
               /\ sc_calls' = <<>>
               /\ UNCHANGED <<sc_pc, sc_running>>
          ELSE /\ sc_running' = FALSE
               /\ sc_ret' = "none"
               /\ IF sc_process # None
                     THEN /\ sc_calls' = <<"terminate">>
                          /\ sc_pc' = "st_wait"
                     ELSE /\ sc_calls' = <<>>
                          /\ sc_pc' = "st_join"
    /\ UNCHANGED nonScVars
    /\ UNCHANGED <<envVars, produced, starts, faults, sc_process, sc_reader_thread,
                   sc_queue, sc_callback, scReader, scRead, scCb, scOs>>

\* stop that never sends kill
ScStopWaitNoKill ==
    /\ kind = "sc"
    /\ sc_pc = "st_wait"
    /\ sc_pc' = "st_join"
    /\ sc_calls' = Append(sc_calls, "wait")
    /\ UNCHANGED helper
    /\ UNCHANGED nonScVars
    /\ UNCHANGED <<envVars, cntVars, scFields, sc_ret, scReader, scRead, scCb,
                   pipe_bytes, stream_off>>

\* wait(timeout=2); on TimeoutExpired kill() and wait()
ScStopWait ==
    /\ kind = "sc"
    /\ sc_pc = "st_wait"
    /\ sc_pc' = "st_join"
    /\ IF helper[sc_process] = "exited"
          THEN /\ sc_calls' = Append(sc_calls, "wait")
               /\ UNCHANGED helper
          ELSE /\ sc_calls' = sc_calls \o <<"wait", "kill", "wait">>
               /\ helper' = [helper EXCEPT ![sc_process] = "exited"]
    /\ UNCHANGED nonScVars
    /\ UNCHANGED <<envVars, cntVars, scFields, sc_ret, scReader, scRead, scCb,
                   pipe_bytes, stream_off>>

\* join(timeout=1) of the reader thread when it is alive; returns either way
ScStopJoin ==
    /\ kind = "sc"
    /\ sc_pc = "st_join"
    /\ sc_pc' = "idle"
    /\ sc_ret' = "stop_done"
    /\ UNCHANGED nonScVars
    /\ UNCHANGED <<envVars, cntVars, scFields, sc_calls, scReader, scRead, scCb, scOs>>

\* the helper writes PCM bytes to its stdout
HelperWrite ==
    /\ kind = "sc"
    /\ sc_process # None
    /\ helper[sc_process] = "alive"
    /\ produced < scn.chunks
    /\ \E n \in WriteSizes :
          /\ pipe_bytes + n <= MaxPipeChunks * BytesPerChunk
          /\ pipe_bytes' = pipe_bytes + n
    /\ produced' = produced + 1
    /\ UNCHANGED nonScVars
    /\ UNCHANGED <<envVars, starts, stops, faults, scFields, scCtl, scReader, scRead, scCb,
                   helper, stream_off>>

\* the helper exits: after terminate, or on its own (an injected failure)
HelperExit ==
    /\ kind = "sc"
    /\ \E i \in Sessions :
          /\ helper[i] = "alive"
          /\ helper' = [helper EXCEPT ![i] = "exited"]
          /\ IF sc_pc = "st_wait" /\ sc_process = i
                THEN UNCHANGED faults
                ELSE CanFail /\ faults' = faults + 1
    /\ UNCHANGED nonScVars
    /\ UNCHANGED <<envVars, produced, starts, stops, scFields, scCtl, scReader, scRead,
                   scCb, pipe_bytes, stream_off>>

\* _reader_worker: the loop test `while self._running`
ReaderCheck(i) ==
    /\ kind = "sc"
    /\ rdr_pc[i] = "check"
    /\ rdr_pc' = [rdr_pc EXCEPT ![i] = IF sc_running THEN "read" ELSE "done"]
    /\ UNCHANGED nonScVars
    /\ UNCHANGED <<envVars, cntVars, scFields, scCtl, rdr_data, scRead, scCb, scOs>>

\* _reader_worker: self._process.stdout.read(bytes_per_chunk), unbuffered:
\* what the pipe holds, up to bytes_per_chunk; b"" at end of file ends the loop
ReaderRead(i) ==
    /\ kind = "sc"
    /\ rdr_pc[i] = "read"
    /\ sc_process # None
    /\ \/ /\ pipe_bytes > 0
          /\ rdr_data' = [rdr_data EXCEPT ![i] =
                            [off |-> stream_off, len |-> Min(pipe_bytes, BytesPerChunk)]]
          /\ pipe_bytes' = pipe_bytes - Min(pipe_bytes, BytesPerChunk)
          /\ stream_off' = stream_off + Min(pipe_bytes, BytesPerChunk)
          /\ rdr_pc' = [rdr_pc EXCEPT ![i] = "deliver"]
       \/ /\ pipe_bytes = 0
          /\ helper[sc_process] = "exited"
          /\ rdr_pc' = [rdr_pc EXCEPT ![i] = "done"]
          /\ UNCHANGED <<rdr_data, pipe_bytes, stream_off>>
    /\ UNCHANGED nonScVars
    /\ UNCHANGED <<envVars, cntVars, scFields, scCtl, scRead, scCb, helper>>

\* start: the stored callback passes len(data) // (channels * sample_width)
FrameCountOf(n) == n \div (Channels * SampleWidth)

\* _reader_worker: the callback when one is stored, else put(block=False)
ReaderDeliver(i) ==
    /\ kind = "sc"
    /\ rdr_pc[i] = "deliver"
    /\ IF sc_callback # None
          THEN /\ sc_cb_chunk' = rdr_data[i]
               /\ sc_cb_owner' = sc_callback
               /\ sc_cb_frames' = FrameCountOf(rdr_data[i].len)
               /\ UNCHANGED sc_queue
          ELSE /\ sc_queue' = PutNowait(sc_queue, rdr_data[i], ScQueueMaxSize)
               /\ UNCHANGED scCb
    /\ rdr_pc' = [rdr_pc EXCEPT ![i] = "check"]
    /\ rdr_data' = [rdr_data EXCEPT ![i] = NoChunk]
    /\ UNCHANGED nonScVars
    /\ UNCHANGED <<envVars, cntVars, sc_process, sc_reader_thread, sc_callback,
                   sc_running, scCtl, scRead, scOs>>

\* read(num_frames): entry
ScReadCall ==
    /\ kind = "sc"
    /\ sc_rd_pc = "idle"
    /\ \E nf \in NumFramesChoices : sc_rd_need' = nf * BytesPerFrame
    /\ sc_rd_pc' = "loop"
    /\ sc_rd_chunks' = <<>>
    /\ sc_rd_timeouts' = 0
    /\ UNCHANGED nonScVars
    /\ UNCHANGED <<envVars, cntVars, scFields, scCtl, scReader, sc_rd_ret, scCb, scOs>>

\* read: one pass of `while bytes_read < total_bytes_needed`: get(timeout=1.0);
\* on queue.Empty break when not running, else continue; after the loop
\* return b"".join(chunks)[:total_bytes_needed]
ScReadStep ==
    /\ kind = "sc"
    /\ sc_rd_pc = "loop"
    /\ IF TotalLen(sc_rd_chunks) >= sc_rd_need
          THEN /\ sc_rd_ret' = JoinTruncate(sc_rd_chunks, sc_rd_need)
               /\ sc_rd_pc' = "idle"
               /\ sc_rd_chunks' = <<>>
               /\ sc_rd_timeouts' = 0
               /\ UNCHANGED sc_queue
          ELSE IF sc_queue # <<>>
          THEN /\ sc_rd_chunks' = Append(sc_rd_chunks, QueueGet(sc_queue))
               /\ sc_queue' = QueueRest(sc_queue)
               /\ UNCHANGED <<sc_rd_pc, sc_rd_ret, sc_rd_timeouts>>
          ELSE IF ~sc_running
          THEN /\ sc_rd_ret' = JoinTruncate(sc_rd_chunks, sc_rd_need)
               /\ sc_rd_pc' = "idle"
               /\ sc_rd_chunks' = <<>>
               /\ sc_rd_timeouts' = 0
               /\ UNCHANGED sc_queue
          ELSE /\ sc_rd_timeouts < MaxReadTimeouts
               /\ sc_rd_timeouts' = sc_rd_timeouts + 1
               /\ UNCHANGED <<sc_queue, sc_rd_chunks, sc_rd_pc, sc_rd_ret>>
    /\ UNCHANGED nonScVars
    /\ UNCHANGED <<envVars, cntVars, sc_process, sc_reader_thread, sc_callback,
                   sc_running, scCtl, scReader, sc_rd_need, scCb, scOs>>

NextSC ==
    \/ ScStart
    \/ ScStopCall
    \/ ScStopWait
    \/ ScStopJoin
    \/ HelperWrite
    \/ HelperExit
    \/ \E i \in Sessions : ReaderCheck(i)
    \/ \E i \in Sessions : ReaderRead(i)
    \/ \E i \in Sessions : ReaderDeliver(i)
    \/ ScReadCall
    \/ ScReadStep

\* =========================================================== ProcessAudioTap
LbMethods == {"initialize", "start_capture", "stop_capture", "cleanup"}

\* ProcessAudioTap.__init__: queue.Queue() has no maxsize
AsyncQueueMaxSize == 0

InitCo ==
    /\ on_data \in (IF kind = "co" THEN BOOLEAN ELSE {FALSE})
    /\ thread = None
    /\ stop_event = FALSE
    /\ async_queue = <<>>
    /\ co_pc = "idle"
    /\ co_ret = "none"
    /\ co_calls = <<>>
    /\ wk_pc = [i \in Sessions |-> "none"]
    /\ wk_data = [i \in Sessions |-> None]
    /\ wk_cb_raised = [i \in Sessions |-> FALSE]
    /\ wk_stopped = [i \in Sessions |-> FALSE]
    /\ wk_reads_after = [i \in Sessions |-> 0]
    /\ co_cb_last = None
    /\ co_cb_frames = None
    /\ co_yield_last = None
    /\ co_sentinels = 0
    /\ lb_calls = [m \in LbMethods |-> 0]
    /\ lb_raised = {}
    /\ lb_open = FALSE
    /\ lb_capturing = FALSE

Called(calls, m) == [calls EXCEPT ![m] = @ + 1]

\* start(): no-op when a thread is recorded; initialize() and start_capture()
\* must both return True, else RuntimeError; then the flag is cleared and the
\* worker spawned
CoStart ==
    /\ kind = "co"
    /\ co_pc = "idle"
    /\ starts < scn.nstarts
    /\ starts' = starts + 1
    /\ IF thread # None
          THEN /\ co_ret' = "start_noop"
               /\ co_calls' = <<>>
               /\ UNCHANGED <<faults, thread, stop_event, coWorker, coLb>>
          ELSE \E o1 \in Outcomes :
                 IF o1 # "ok"
                    THEN /\ faults' = faults + 1
                         /\ lb_calls' = Called(lb_calls, "initialize")
                         /\ co_calls' = <<"initialize">>
                         /\ co_ret' = "start_error"
                         /\ UNCHANGED <<thread, stop_event, coWorker, lb_raised, lb_open,
                                        lb_capturing>>
                    ELSE \E o2 \in Outcomes :
                           /\ Fault(o2)
                           /\ lb_calls' = Called(Called(lb_calls, "initialize"), "start_capture")
                           /\ co_calls' = <<"initialize", "start_capture">>
                           /\ lb_open' = TRUE
                           /\ UNCHANGED lb_raised
                           /\ IF o2 = "ok"
                                 THEN /\ lb_capturing' = TRUE
                                      /\ stop_event' = FALSE
                                      /\ thread' = starts + 1
                                      /\ wk_pc' = [wk_pc EXCEPT ![starts + 1] = "check"]
                                      /\ co_ret' = "start_ok"
                                      /\ UNCHANGED <<wk_data, wk_cb_raised, wk_stopped,
                                                     wk_reads_after>>
                                 ELSE /\ co_ret' = "start_error"
                                      /\ UNCHANGED <<thread, stop_event, coWorker, lb_capturing>>
    /\ UNCHANGED nonCoVars
    /\ UNCHANGED <<envVars, produced, stops, on_data, async_queue, co_pc, coGhost>>

Alive(i) == wk_pc[i] \notin {"none", "done"}

\* stop(): sets the flag; a recorded thread is joined next
CoStopCall ==
    /\ kind = "co"
    /\ co_pc = "idle"
    /\ stops < scn.nstops
    /\ stops' = stops + 1
    /\ stop_event' = TRUE
    /\ wk_stopped' = [i \in Sessions |-> Alive(i)]
    /\ wk_reads_after' = [i \in Sessions |-> 0]
    /\ co_pc' = IF thread # None THEN "join" ELSE "release"
    /\ co_calls' = <<>>
    /\ lb_raised' = {}
    /\ UNCHANGED nonCoVars
    /\ UNCHANGED <<envVars, produced, starts, faults, on_data, thread, async_queue,
                   co_ret, wk_pc, wk_data, wk_cb_raised, coGhost, lb_calls, lb_open,
                   lb_capturing>>

\* join(timeout=1.0) returns when the worker has exited or the second is over;
\* self._thread = None either way
CoStopJoin ==
    /\ kind = "co"
    /\ co_pc = "join"
    /\ thread' = None
    /\ co_pc' = "release"
    /\ UNCHANGED nonCoVars
    /\ UNCHANGED <<envVars, cntVars, on_data, stop_event, async_queue, co_ret, co_calls,
                   coWorker, coGhost, coLb>>

\* the backend after stop_capture() (o1) and cleanup() (o2): a call that raises
\* leaves what it was to release; cleanup() that succeeds releases everything
ReleasedCapturing(o1, o2) == IF o1 = "ok" \/ o2 = "ok" THEN FALSE ELSE lb_capturing

ReleasedOpen(o2) == IF o2 = "ok" THEN FALSE ELSE lb_open

RaisedInStop(o1, o2) ==
    (IF o1 = "ok" THEN {} ELSE {"stop_capture"}) \cup (IF o2 = "ok" THEN {} ELSE {"cleanup"})

\* stop() that gives up after the first backend call that raised
CoStopReleaseUntilRaised ==
    /\ kind = "co"
    /\ co_pc = "release"
    /\ \E o1 \in Outcomes :
         /\ Fault(o1)
         /\ IF o1 = "ok"
               THEN /\ lb_calls' = Called(Called(lb_calls, "stop_capture"), "cleanup")
                    /\ co_calls' = <<"stop_capture", "cleanup">>
                    /\ lb_capturing' = FALSE
                    /\ lb_open' = FALSE
               ELSE /\ lb_calls' = Called(lb_calls, "stop_capture")
                    /\ co_calls' = <<"stop_capture">>
                    /\ UNCHANGED <<lb_capturing, lb_open>>
         /\ lb_raised' = RaisedInStop(o1, "ok")
    /\ co_pc' = "idle"
    /\ co_ret' = "stop_done"
    /\ UNCHANGED nonCoVars
    /\ UNCHANGED <<envVars, produced, starts, stops, coFields, coWorker, coGhost>>

\* stop_capture() and cleanup(), each in its own try / except Exception
CoStopRelease ==
    /\ kind = "co"
    /\ co_pc = "release"
    /\ \E o1, o2 \in Outcomes :
         /\ faults' = faults + Cardinality(RaisedInStop(o1, o2))
         /\ faults' <= scn.nfaults
         /\ lb_calls' = Called(Called(lb_calls, "stop_capture"), "cleanup")
         /\ co_calls' = <<"stop_capture", "cleanup">>
         /\ lb_raised' = RaisedInStop(o1, o2)
         /\ lb_capturing' = ReleasedCapturing(o1, o2)
         /\ lb_open' = ReleasedOpen(o2)
    /\ co_pc' = "idle"
    /\ co_ret' = "stop_done"
    /\ UNCHANGED nonCoVars
    /\ UNCHANGED <<envVars, produced, starts, stops, coFields, coWorker, coGhost>>

\* _worker: the loop test `while not self._stop_event.is_set()`
WorkerCheck(i) ==
    /\ kind = "co"
    /\ wk_pc[i] = "check"
    /\ wk_pc' = [wk_pc EXCEPT ![i] = IF stop_event THEN "sentinel" ELSE "read"]
    /\ UNCHANGED nonCoVars
    /\ UNCHANGED <<envVars, cntVars, coFields, coCtl, wk_data, wk_cb_raised, wk_stopped,
                   wk_reads_after, coGhost, coLb>>

\* _worker: read_data(): an exception or an empty result continues the loop
WorkerRead(i) ==
    /\ kind = "co"
    /\ wk_pc[i] = "read"
    /\ wk_reads_after' = [wk_reads_after EXCEPT ![i] =
                             IF wk_stopped[i] THEN Min(@ + 1, 2) ELSE @]
    /\ \/ /\ lb_capturing
          /\ produced < scn.chunks
          /\ produced' = produced + 1
          /\ wk_data' = [wk_data EXCEPT ![i] = produced + 1]
          /\ wk_pc' = [wk_pc EXCEPT ![i] = IF on_data THEN "callback" ELSE "put"]
          /\ UNCHANGED faults
       \/ /\ wk_pc' = [wk_pc EXCEPT ![i] = "check"]
          /\ UNCHANGED <<produced, wk_data, faults>>
       \/ /\ CanFail
          /\ faults' = faults + 1
          /\ wk_pc' = [wk_pc EXCEPT ![i] = "check"]
          /\ UNCHANGED <<produced, wk_data>>
    /\ UNCHANGED nonCoVars
    /\ UNCHANGED <<envVars, starts, stops, coFields, coCtl, wk_cb_raised, wk_stopped,
                   coGhost, coLb>>

\* byte lengths of the packets read_data returns, by chunk number
CoChunkLens == <<BytesPerChunk, BytesPerFrame>>

CoChunkLen(c) == CoChunkLens[(c % Len(CoChunkLens)) + 1]

\* _worker: the second argument of self._on_data
CoFrameCountArg == -1

\* _worker: self._on_data(data, -1); an exception is logged and the worker
\* goes on to the put_nowait below
WorkerCallback(i) ==
    /\ kind = "co"
    /\ wk_pc[i] = "callback"
    /\ co_cb_last' = wk_data[i]
    /\ co_cb_frames' = CoFrameCountArg
    /\ \E o \in Outcomes :
         /\ Fault(o)
         /\ wk_cb_raised' = [wk_cb_raised EXCEPT ![i] = (o # "ok")]
    /\ wk_pc' = [wk_pc EXCEPT ![i] = "put"]
    /\ UNCHANGED nonCoVars
    /\ UNCHANGED <<envVars, produced, starts, stops, coFields, coCtl, wk_data, wk_stopped,
                   wk_reads_after, co_yield_last, co_sentinels, coLb>>

\* _worker: self._async_queue.put_nowait(data), queue.Full swallowed
WorkerPut(i) ==
    /\ kind = "co"
    /\ wk_pc[i] = "put"
    /\ async_queue' = PutNowait(async_queue, wk_data[i], AsyncQueueMaxSize)
    /\ wk_data' = [wk_data EXCEPT ![i] = None]
    /\ wk_cb_raised' = [wk_cb_raised EXCEPT ![i] = FALSE]
    /\ wk_pc' = [wk_pc EXCEPT ![i] = "check"]
    /\ UNCHANGED nonCoVars
    /\ UNCHANGED <<envVars, cntVars, on_data, thread, stop_event, coCtl, wk_stopped,
                   wk_reads_after, coGhost, coLb>>

\* _worker: after the loop, put_nowait(None)
WorkerSentinel(i) ==
    /\ kind = "co"
    /\ wk_pc[i] = "sentinel"
    /\ async_queue' = PutNowait(async_queue, None, AsyncQueueMaxSize)
    /\ wk_pc' = [wk_pc EXCEPT ![i] = "done"]
    /\ UNCHANGED nonCoVars
    /\ UNCHANGED <<envVars, cntVars, on_data, thread, stop_event, coCtl, wk_data,
                   wk_cb_raised, wk_stopped, wk_reads_after, coGhost, coLb>>

\* iter_chunks: one blocking self._async_queue.get; None ends the iteration
IterGet ==
    /\ kind = "co"
    /\ async_queue # <<>>
    /\ async_queue' = QueueRest(async_queue)
    /\ IF QueueGet(async_queue) = None
          THEN /\ co_sentinels' = Min(co_sentinels + 1, MaxStarts)
               /\ UNCHANGED co_yield_last
          ELSE /\ co_yield_last' = QueueGet(async_queue)
               /\ UNCHANGED co_sentinels
    /\ UNCHANGED nonCoVars
    /\ UNCHANGED <<envVars, cntVars, on_data, thread, stop_event, coCtl, coWorker,
                   co_cb_last, co_cb_frames, coLb>>

NextCo ==
    \/ CoStart
    \/ CoStopCall
    \/ CoStopJoin
    \/ CoStopRelease
    \/ \E i \in Sessions : WorkerCheck(i)
    \/ \E i \in Sessions : WorkerRead(i)
    \/ \E i \in Sessions : WorkerCallback(i)
    \/ \E i \in Sessions : WorkerPut(i)
    \/ \E i \in Sessions : WorkerSentinel(i)
    \/ IterGet

\* ====================================================== NativeAudioConverter
MaxConvBytes == 16

FixedRate == 48000

FixedChannels == 2

Float32Width == 4

Int16Width == 2

CvRates == {44100, FixedRate}

CvChannels == {1, FixedChannels}

CvFormats == {"int16", "float32", "int24"}

Qualities == {"low_latency", "high_quality"}

\* the result of a call: the byte length returned, or the exception raised
Returned(n) == [err |-> "none", len |-> n]

Raised(e) == [err |-> e, len |-> 0]

\* a constructor that keeps the requested quality whatever is installed
EffectiveQualityAsRequested(q, hq) == q

\* __init__: HIGH_QUALITY without the libsamplerate backend becomes LOW_LATENCY
EffectiveQuality(q, hq) ==
    IF q = "high_quality" /\ ~hq THEN "low_latency" ELSE q

\* NativeAudioConverter(quality) with the native extension present
InitConv ==
    /\ cv_env \in IF kind = "conv"
                     THEN [requested : Qualities, hq : BOOLEAN]
                     ELSE {[requested |-> "low_latency", hq |-> FALSE]}
    /\ cv_quality = EffectiveQuality(cv_env.requested, cv_env.hq)
    /\ cv_quality_str = EffectiveQuality(cv_env.requested, cv_env.hq)
    /\ cv_ret = [op |-> "none"]

\* convert_int16_to_float32: len(data) % 2 is checked; 4 bytes out per 2 in
ConvertInt16ToFloat32(n) ==
    IF n % Int16Width # 0 THEN Raised("ValueError")
    ELSE Returned((n \div Int16Width) * Float32Width)

\* _audio_converter.resample_audio: float32 frames scaled by dst_rate / src_rate
ResampleAudio(n, src_rate, dst_rate, channels) ==
    (((n \div (channels * Float32Width)) * dst_rate) \div src_rate) * channels * Float32Width

\* resample: len(data) % (channels * 4) is checked
Resample(n, src_rate, dst_rate, channels) ==
    IF n % (channels * Float32Width) # 0 THEN Raised("ValueError")
    ELSE Returned(ResampleAudio(n, src_rate, dst_rate, channels))

\* convert_to_fixed_format, step 1: to float32
ToFloat32(n, src_format) ==
    IF src_format = "int16" THEN ConvertInt16ToFloat32(n)
    ELSE IF src_format = "float32" THEN Returned(n)
    ELSE Raised("ValueError")

\* convert_to_fixed_format: step 2 resamples when src_rate is not 48000;
\* step 3 (channel conversion) only logs a warning
ConvertToFixedFormat(n, src_rate, src_channels, src_format) ==
    IF ToFloat32(n, src_format).err # "none" THEN ToFloat32(n, src_format)
    ELSE IF src_rate # FixedRate
         THEN Resample(ToFloat32(n, src_format).len, src_rate, FixedRate, src_channels)
         ELSE ToFloat32(n, src_format)

\* a call of convert_to_fixed_format(data, src_rate, src_channels, src_format)
CvConvertToFixedFormat ==
    /\ kind = "conv"
    /\ \E n \in 0 .. MaxConvBytes, r \in CvRates, c \in CvChannels, f \in CvFormats :
          cv_ret' = [op |-> "convert_to_fixed_format", n |-> n, src_rate |-> r,
                     channels |-> c, src_format |-> f,
                     quality |-> IF ToFloat32(n, f).err = "none" /\ r # FixedRate
                                       /\ Resample(ToFloat32(n, f).len, r, FixedRate, c).err = "none"
                                    THEN cv_quality_str ELSE "unused",
                     res |-> ConvertToFixedFormat(n, r, c, f)]
    /\ UNCHANGED <<envVars, nonCvVars, cv_env, cv_quality, cv_quality_str>>

\* a call of resample(data, src_rate, dst_rate, channels)
CvResample ==
    /\ kind = "conv"
    /\ \E n \in 0 .. MaxConvBytes, r \in CvRates, d \in CvRates, c \in CvChannels :
          cv_ret' = [op |-> "resample", n |-> n, src_rate |-> r, dst_rate |-> d,
                     channels |-> c,
                     quality |-> IF Resample(n, r, d, c).err = "none"
                                    THEN cv_quality_str ELSE "unused",
                     res |-> Resample(n, r, d, c)]
    /\ UNCHANGED <<envVars, nonCvVars, cv_env, cv_quality, cv_quality_str>>

NextConv == CvConvertToFixedFormat \/ CvResample

\* =========================================================== WindowsBackend
MaxWinBytes == 8

WinEncodings == {"int16", "int32", "float32"}

\* bytes per sample of an encoding
EncWidth(e) == IF e = "int16" THEN Int16Width ELSE Float32Width

\* is_conversion_needed as __init__ calls it: rate, channels and width of the
\* source and of the destination
IsConversionNeeded(src_rate, src_channels, src_width, dst_rate, dst_channels, dst_width) ==
    src_rate # dst_rate \/ src_channels # dst_channels \/ src_width # dst_width

\* AudioConverter.convert: whole source frames in, the same duration out in
\* the destination format
AudioConvert(n, cv) ==
    IF n % (cv.src_channels * cv.src_width) # 0 THEN Raised("ValueError")
    ELSE Returned((((n \div (cv.src_channels * cv.src_width)) * cv.dst_rate) \div cv.src_rate)
                     * cv.dst_channels * cv.dst_width)

\* __init__: the native converter is used when asked for and importable (the
\* widths 2 and 4 are the only ones of WinEncodings)
NativeConverterOf(e) == e.use_native /\ e.has_native

\* __init__: self._converter, None as <<>>
ConverterOf(e) ==
    IF NativeConverterOf(e)
       THEN IF FixedRate # e.rate \/ FixedChannels # e.channels
               \/ EncWidth(e.sample_format) # Float32Width
               THEN <<[src_rate |-> FixedRate, src_channels |-> FixedChannels,
                       src_width |-> Float32Width, src_format |-> "float32",
                       dst_rate |-> e.rate, dst_channels |-> e.channels,
                       dst_width |-> EncWidth(e.sample_format),
                       dst_format |-> e.sample_format]>>
               ELSE <<>>
       ELSE IF IsConversionNeeded(e.native_rate, e.native_channels, EncWidth(e.native_enc),
                                  e.rate, e.channels, EncWidth(e.sample_format))
               THEN <<[src_rate |-> e.native_rate, src_channels |-> e.native_channels,
                       src_width |-> EncWidth(e.native_enc), src_format |-> "int16",
                       dst_rate |-> e.rate, dst_channels |-> e.channels,
                       dst_width |-> EncWidth(e.sample_format),
                       dst_format |-> e.sample_format]>>
               ELSE <<>>

\* a get_format that reports the format of the endpoint
OutputFormatNative(e) ==
    [sample_rate |-> e.native_rate, channels |-> e.native_channels,
     bits_per_sample |-> EncWidth(e.native_enc) * 8, sample_format |-> e.native_enc]

\* __init__: self._output_format, the requested values
OutputFormatOf(e) ==
    [sample_rate |-> e.rate, channels |-> e.channels,
     bits_per_sample |-> EncWidth(e.sample_format) * 8, sample_format |-> e.sample_format]

\* WindowsBackend(pid, sample_rate, channels, sample_width, sample_format,
\* use_native_converter=...) on an endpoint with the given native format
InitWin ==
    /\ w_env \in IF kind = "win"
                    THEN [native_rate : CvRates, native_channels : CvChannels,
                          native_enc : WinEncodings, rate : CvRates, channels : CvChannels,
                          sample_format : WinEncodings, use_native : BOOLEAN,
                          has_native : BOOLEAN]
                    ELSE {[native_rate |-> FixedRate, native_channels |-> FixedChannels,
                           native_enc |-> "int16", rate |-> FixedRate,
                           channels |-> FixedChannels, sample_format |-> "int16",
                           use_native |-> FALSE, has_native |-> FALSE]}
    /\ w_native_converter = NativeConverterOf(w_env)
    /\ w_native_src_format =
          IF NativeConverterOf(w_env) /\ EncWidth(w_env.native_enc) = Float32Width
             THEN "float32" ELSE "int16"
    /\ w_converter = ConverterOf(w_env)
    /\ w_output_format = OutputFormatOf(w_env)
    /\ w_started = FALSE
    /\ w_ret = [op |-> "none"]

\* start(): self._native.start()
WinStart ==
    /\ kind = "win"
    /\ w_started' = TRUE
    /\ w_ret' = [op |-> "start"]
    /\ UNCHANGED <<envVars, nonWinVars, w_env, w_native_converter, w_native_src_format,
                   w_converter, w_output_format>>

\* stop(): self._native.stop(), an exception is logged
WinStop ==
    /\ kind = "win"
    /\ w_started' = FALSE
    /\ w_ret' = [op |-> "stop"]
    /\ UNCHANGED <<envVars, nonWinVars, w_env, w_native_converter, w_native_src_format,
                   w_converter, w_output_format>>

\* read(): after the native converter, when one is set and data is not empty
AfterNative(n) ==
    IF w_native_converter /\ n > 0
       THEN ConvertToFixedFormat(n, w_env.native_rate, w_env.native_channels,
                                 w_native_src_format)
       ELSE Returned(n)

\* read(): the native bytes through the converters that are set; an exception
\* of either converter is logged and b"" returned
WinRead ==
    /\ kind = "win"
    /\ \E n \in 0 .. (IF w_started THEN MaxWinBytes ELSE 0) :
          w_ret' = [op |-> "read", native |-> n,
                    native_converted |-> (w_native_converter /\ n > 0),
                    converted |-> (AfterNative(n).err = "none" /\ w_converter # <<>>
                                      /\ AfterNative(n).len > 0),
                    len |-> IF AfterNative(n).err # "none" THEN 0
                            ELSE IF w_converter # <<>> /\ AfterNative(n).len > 0
                                 THEN AudioConvert(AfterNative(n).len, w_converter[1]).len
                                 ELSE AfterNative(n).len]
    /\ UNCHANGED <<envVars, nonWinVars, w_env, w_native_converter, w_native_src_format,
                   w_converter, w_output_format, w_started>>

\* get_format(): returns self._output_format
WinGetFormat ==
    /\ kind = "win"
    /\ w_ret' = [op |-> "get_format", res |-> w_output_format]
    /\ UNCHANGED <<envVars, nonWinVars, w_env, w_native_converter, w_native_src_format,
                   w_converter, w_output_format, w_started>>

NextWin == WinStart \/ WinStop \/ WinRead \/ WinGetFormat

\* ============================================================== get_backend
Systems == {"Windows", "Linux", "Darwin", "FreeBSD"}

\* platform.mac_ver()[0].split('.'): one to three parts, None for a part that
\* int() rejects
VersionStrings ==
    LET majors == {13, 14, 15, None}
        minors == {0, 3, 4, 5, None}
        patches == {0, None}
    IN  {<<a>> : a \in majors}
        \cup {<<a, b>> : a \in majors, b \in minors}
        \cup {<<a, b, c>> : a \in majors, b \in minors, c \in patches}

\* get_macos_version: the parts as integers, a missing part as 0, and
\* (0, 0, 0) when a part does not parse
GetMacosVersion(parts) ==
    IF \E i \in 1 .. Len(parts) : parts[i] = None THEN <<0, 0, 0>>
    ELSE <<parts[1],
           IF Len(parts) > 1 THEN parts[2] ELSE 0,
           IF Len(parts) > 2 THEN parts[3] ELSE 0>>

\* a gate that compares major and minor each on its own
SupportsProcessTapEachPart(v) == v[1] >= 14 /\ v[2] >= 4

\* supports_process_tap on the parsed version
SupportsProcessTap(v) == v[1] > 14 \/ (v[1] = 14 /\ v[2] >= 4)

\* MacOSNativeBackend(pid, ...): the two checks of __init__, then the fields
NewMacOSNative(e) ==
    IF ~e.pyobjc THEN [backend |-> "none", err |-> "RuntimeError", gate |-> "not reached"]
    ELSE IF ~SupportsProcessTap(GetMacosVersion(e.version))
         THEN [backend |-> "none", err |-> "RuntimeError", gate |-> "refused"]
         ELSE [backend |-> "MacOSNativeBackend", err |-> "none", gate |-> "passed"]

\* ScreenCaptureBackend(pid, ...): no bundle id raises ValueError, no helper
\* binary raises RuntimeError
NewScreenCapture(e) ==
    IF e.sc_new = "ok" THEN [backend |-> "ScreenCaptureBackend", err |-> "none"]
    ELSE [backend |-> "none", err |-> e.sc_new]

\* LinuxBackend.__init__(self, pid) called with the keywords get_backend
\* passes
NewLinux(kwargs) ==
    IF kwargs \subseteq {"pid"} THEN [backend |-> "LinuxBackend", err |-> "none"]
    ELSE [backend |-> "none", err |-> "TypeError"]

\* get_backend(pid, ...)
GetBackend(e) ==
    IF e.system = "Windows" THEN [backend |-> "WindowsBackend", err |-> "none"]
    ELSE IF e.system = "Linux"
         THEN NewLinux({"pid", "sample_rate", "channels", "sample_width"})
    ELSE IF e.system = "Darwin"
         THEN IF e.sc_available THEN NewScreenCapture(e)
              ELSE IF e.pyobjc
                   THEN [backend |-> NewMacOSNative(e).backend, err |-> NewMacOSNative(e).err]
                   ELSE [backend |-> "none", err |-> "RuntimeError"]
    ELSE [backend |-> "none", err |-> "NotImplementedError"]

InitSel ==
    /\ g_env \in IF kind = "sel"
                    THEN [system : Systems, version : VersionStrings,
                          sc_available : BOOLEAN, sc_new : {"ok", "ValueError", "RuntimeError"},
                          pyobjc : BOOLEAN]
                    ELSE {[system |-> "Darwin", version |-> <<14, 4>>, sc_available |-> TRUE,
                           sc_new |-> "ok", pyobjc |-> TRUE]}
    /\ g_ret = [op |-> "none"]

\* a call of get_backend(pid)
SelGetBackend ==
    /\ kind = "sel"
    /\ g_ret' = [op |-> "get_backend", res |-> GetBackend(g_env)]
    /\ UNCHANGED <<envVars, nonSelVars, fltVars, g_env>>

\* a call of MacOSNativeBackend(pid)
SelNewMacOSNative ==
    /\ kind = "sel"
    /\ g_ret' = [op |-> "MacOSNativeBackend", res |-> NewMacOSNative(g_env)]
    /\ UNCHANGED <<envVars, nonSelVars, fltVars, g_env>>

NextSel == SelGetBackend \/ SelNewMacOSNative

\* ========================================================== contrib.filters
MaxHangover == 3

MaxVadFrames == 8

MaxChainLen == 4

Filters == {"HighPassFilter", "NoiseGate", "StereoToMono"}

\* EnergyVAD(threshold_db, hangover_frames) and no FilterChain yet
InitFlt ==
    /\ v_h \in IF kind = "vad" THEN 0 .. MaxHangover ELSE {0}
    /\ v_is_speech = FALSE
    /\ v_hang = 0
    /\ v_quiet_run = None
    /\ v_frames = 0
    /\ fc_built = FALSE
    /\ fc_chain = <<>>
    /\ fc_before = <<>>
    /\ fc_ret = [op |-> "none", err |-> "none", n |-> 0]

\* a detector without hangover: the flag is the level of the frame
VadProcessNoHangover ==
    /\ kind = "vad"
    /\ v_frames < MaxVadFrames
    /\ v_frames' = v_frames + 1
    /\ \E loud \in BOOLEAN :
          /\ v_is_speech' = loud
          /\ v_hang' = 0
          /\ v_quiet_run' = IF loud THEN 0
                            ELSE IF v_quiet_run = None THEN None ELSE v_quiet_run + 1
    /\ UNCHANGED <<envVars, nonSelVars, selVars, v_h, fc_built, fc_chain, fc_before, fc_ret>>

\* EnergyVAD.process(frame): a frame above the threshold sets the flag and
\* rearms the hangover; a frame below it uses up one hangover frame, and
\* clears the flag when none is left
VadProcess ==
    /\ kind = "vad"
    /\ v_frames < MaxVadFrames
    /\ v_frames' = v_frames + 1
    /\ \E loud \in BOOLEAN :
          IF loud
             THEN /\ v_is_speech' = TRUE
                  /\ v_hang' = v_h
                  /\ v_quiet_run' = 0
             ELSE /\ v_is_speech' = (v_hang > 0)
                  /\ v_hang' = IF v_hang > 0 THEN v_hang - 1 ELSE 0
                  /\ v_quiet_run' = IF v_quiet_run = None THEN None ELSE v_quiet_run + 1
    /\ UNCHANGED <<envVars, nonSelVars, selVars, v_h, fc_built, fc_chain, fc_before, fc_ret>>

\* FilterChain(filters): an empty list raises ValueError
ChainNew ==
    /\ kind = "chain"
    /\ ~fc_built
    /\ \E n \in 0 .. 2 : \E fs \in [1 .. n -> Filters] :
          /\ fc_before' = fc_chain
          /\ IF fs = <<>>
                THEN /\ fc_ret' = [op |-> "FilterChain", err |-> "ValueError", n |-> 0]
                     /\ UNCHANGED <<fc_built, fc_chain>>
                ELSE /\ fc_ret' = [op |-> "FilterChain", err |-> "none", n |-> n]
                     /\ fc_built' = TRUE
                     /\ fc_chain' = fs
    /\ UNCHANGED <<envVars, nonSelVars, selVars, v_h, v_is_speech, v_hang, v_quiet_run,
                   v_frames>>

\* add_filter(f): appends
AddFilter ==
    /\ kind = "chain"
    /\ fc_built
    /\ Len(fc_chain) < MaxChainLen
    /\ \E f \in Filters : fc_chain' = Append(fc_chain, f)
    /\ fc_before' = fc_chain
    /\ fc_ret' = [op |-> "add_filter", err |-> "none", n |-> Len(fc_chain)]
    /\ UNCHANGED <<envVars, nonSelVars, selVars, v_h, v_is_speech, v_hang, v_quiet_run,
                   v_frames, fc_built>>

\* insert_filter(index, f): f becomes the filter at index
InsertFilter ==
    /\ kind = "chain"
    /\ fc_built
    /\ Len(fc_chain) < MaxChainLen
    /\ \E i \in 0 .. Len(fc_chain), f \in Filters :
          fc_chain' = SubSeq(fc_chain, 1, i) \o <<f>> \o SubSeq(fc_chain, i + 1, Len(fc_chain))
    /\ fc_before' = fc_chain
    /\ fc_ret' = [op |-> "insert_filter", err |-> "none", n |-> Len(fc_chain)]
    /\ UNCHANGED <<envVars, nonSelVars, selVars, v_h, v_is_speech, v_hang, v_quiet_run,
                   v_frames, fc_built>>

\* a remove_filter that removes whatever the length is
RemoveFilterUnchecked ==
    /\ kind = "chain"
    /\ fc_built
    /\ \E i \in 0 .. Len(fc_chain) - 1 :
          fc_chain' = SubSeq(fc_chain, 1, i) \o SubSeq(fc_chain, i + 2, Len(fc_chain))
    /\ fc_before' = fc_chain
    /\ fc_ret' = [op |-> "remove_filter", err |-> "none", n |-> Len(fc_chain)]
    /\ UNCHANGED <<envVars, nonSelVars, selVars, v_h, v_is_speech, v_hang, v_quiet_run,
                   v_frames, fc_built>>

\* remove_filter(index): the last filter cannot be removed (ValueError)
RemoveFilter ==
    /\ kind = "chain"
    /\ fc_built
    /\ \E i \in 0 .. Len(fc_chain) - 1 :
          IF Len(fc_chain) <= 1
             THEN /\ fc_ret' = [op |-> "remove_filter", err |-> "ValueError",
                                n |-> Len(fc_chain)]
                  /\ UNCHANGED fc_chain
             ELSE /\ fc_ret' = [op |-> "remove_filter", err |-> "none", n |-> Len(fc_chain)]
                  /\ fc_chain' = SubSeq(fc_chain, 1, i)
                                    \o SubSeq(fc_chain, i + 2, Len(fc_chain))
    /\ fc_before' = fc_chain
    /\ UNCHANGED <<envVars, nonSelVars, selVars, v_h, v_is_speech, v_hang, v_quiet_run,
                   v_frames, fc_built>>

NextFlt == VadProcess \/ ChainNew \/ AddFilter \/ InsertFilter \/ RemoveFilter

\* ================================================================== claims
\* ------------------------------------------------------ MacOSNativeBackend
HandlesCleared ==
    /\ process_object_id = None
    /\ tap_device_id = None
    /\ aggregate_device_id = None
    /\ io_proc_id = None
    /\ tap_uuid = None
    /\ io_callback = None

TapIdle == kind = "tap" /\ t_pc = "idle"

StartFailedAfterTap ==
    /\ TapIdle
    /\ t_ret = "start_error"
    /\ \E i \in 1 .. Len(t_calls) : t_calls[i] = "CreateProcessTap"
    /\ "CreateProcessTap" \notin t_raised

\* C1: when start has returned its error after the process tap was created
\* (aggregate creation, IOProc installation or device start failed), a destroy
\* call has been issued for every object the instance created, every handle
\* field is None and the backend is not running.
ClaimC1 ==
    StartFailedAfterTap =>
        /\ created \subseteq destroy_issued
        /\ HandlesCleared
        /\ ~is_running

\* start failed at the device start, with tap, aggregate device and IOProc created
WitnessC1 ==
    /\ StartFailedAfterTap
    /\ "DeviceStart" \in t_raised
    /\ Cardinality(created) >= 3

TeardownOrder ==
    <<"DeviceStop", "DestroyIOProcID", "DestroyAggregateDevice", "DestroyProcessTap">>

\* C2: a stop on a running backend issues exactly the calls stop device,
\* destroy IOProc, destroy aggregate device, destroy process tap, in this
\* order, whichever of them raised.
ClaimC2 ==
    (TapIdle /\ t_ret = "stop_done") => t_calls = TeardownOrder

\* a stop has returned although the first two teardown calls raised
WitnessC2 ==
    /\ TapIdle
    /\ t_ret = "stop_done"
    /\ {"DeviceStop", "DestroyIOProcID"} \subseteq t_raised

OsObjects == os_taps \cup os_aggs \cup os_ioprocs

ClaimC5 ==
    [][ /\ (kind = "tap" /\ stops' # stops /\ ~is_running) =>
              /\ t_ret' = "stop_noop"
              /\ t_calls' = <<>>
              /\ UNCHANGED <<tapFields, t_pc, t_op, t_read, osVars>>
        /\ (kind = "sc" /\ stops' # stops /\ ~sc_running) =>
              /\ sc_ret' = "stop_noop"
              /\ sc_calls' = <<>>
              /\ UNCHANGED <<scFields, sc_pc, scReader, scRead, scCb, scOs>>
      ]_vars

\* a stop has returned at once on a backend whose objects were already released
WitnessC5 ==
    /\ TapIdle
    /\ t_ret = "stop_noop"
    /\ ~is_running
    /\ created # {}
    /\ created \subseteq destroy_issued

NoReaderHolds == \A i \in Sessions : rdr_data[i] = NoChunk

\* C6: once the producer has pushed more than capacity chunks, a full queue
\* holds the capacity most recently produced chunks, oldest first (the oldest
\* chunk is discarded on overflow and the new one kept).
ClaimC6 ==
    /\ (kind = "tap" /\ produced > AudioQueueMaxSize
                     /\ Len(audio_queue) = AudioQueueMaxSize) =>
          audio_queue = [i \in 1 .. AudioQueueMaxSize |->
                            produced - AudioQueueMaxSize + i]
    /\ (kind = "sc" /\ sc_callback = None /\ NoReaderHolds
                    /\ stream_off > ScQueueMaxSize * BytesPerChunk
                    /\ Len(sc_queue) = ScQueueMaxSize) =>
          \A i \in 1 .. ScQueueMaxSize :
              sc_queue[i].off = stream_off - (ScQueueMaxSize - i + 1) * BytesPerChunk

\* C9: a read call returns before it has waited out MaxReadTimeouts timeout
\* periods (MacOSNativeBackend.read waits out at most one).
ClaimC9 ==
    (kind = "sc" /\ sc_rd_pc = "loop") => sc_rd_timeouts < MaxReadTimeouts

\* ---------------------------------------------------------- ProcessAudioTap
CoStopStep == kind = "co" /\ (co_pc # "idle" \/ co_pc' # "idle")

WorkerSpawned == \E i \in Sessions : wk_pc[i] # "none"

\* C4: after a start and a completed stop, no step of a further stop calls
\* stop_capture or cleanup again, changes a field of the coordinator or
\* enqueues a sentinel.
ClaimC4 ==
    [][ (CoStopStep /\ co_ret = "stop_done" /\ WorkerSpawned) =>
            UNCHANGED <<coFields, lb_calls>>
      ]_vars

\* C7: the coordinator's output queue never holds more than 100 chunks.
ClaimC7 == Len(async_queue) <= 100

\* C10: once stop has set the flag, a worker starts at most the backend read
\* of the iteration in progress.
ClaimC10 ==
    \A i \in Sessions : wk_stopped[i] => wk_reads_after[i] <= 1

\* --------------------------------------------------------- delivery order
RangesAscend(r) ==
    \A i \in 1 .. Len(r) - 1 : r[i].off + r[i].len <= r[i + 1].off

\* C8: what is delivered to a callback or returned by read / iter_chunks
\* follows the production order: each delivery is of a chunk produced later
\* than the chunk of the delivery before it.
ClaimC8 ==
    [][ /\ co_cb_last' # co_cb_last => co_cb_last' > co_cb_last
        /\ co_yield_last' # co_yield_last => co_yield_last' > co_yield_last
        /\ (t_read' # None /\ t_read # None /\ t_read' # t_read) => t_read' > t_read
        /\ sc_cb_chunk' # sc_cb_chunk => sc_cb_chunk'.off > sc_cb_chunk.off
        /\ sc_rd_ret' # sc_rd_ret =>
              /\ RangesAscend(sc_rd_ret')
              /\ RangesAscend(sc_rd_ret \o sc_rd_ret')
      ]_vars

\* --------------------------------------------- MacOSNativeBackend.start
StartSteps ==
    <<"TranslatePID", "CreateProcessTap", "GetTapFormat", "GetOutputUID",
      "CreateAggregateDevice", "CreateIOProcID", "DeviceStart">>

StartStepNames == {StartSteps[i] : i \in 1 .. Len(StartSteps)}

StartSucceeded == TapIdle /\ t_ret = "start_ok"

\* C16: a successful start has made its calls in the order PID translation,
\* tap creation, tap-format read, output-UID resolution, aggregate creation,
\* IOProc installation, device start; the IOProc was installed on the
\* aggregate device and the start was issued to the aggregate device, which
\* is not the tap.
ClaimC16 ==
    StartSucceeded =>
       /\ t_calls = StartSteps
       /\ os_ioproc_dev = aggregate_device_id
       /\ os_start_dev = aggregate_device_id
       /\ aggregate_device_id \in os_aggs
       /\ aggregate_device_id \notin os_taps
       /\ tap_device_id \in os_taps

\* a second session has started successfully
WitnessC16 ==
    /\ StartSucceeded
    /\ starts = 2
    /\ stops = 1
    /\ os_start_dev = aggregate_device_id
    /\ tap_device_id # aggregate_device_id

\* C17: a step of start that failed is the last step of that start: no step
\* is made after a step that reported a failure (so no aggregate device is
\* created after a failed tap-format read), and a start that returned without
\* error had no failing step.
ClaimC17 ==
    kind = "tap" =>
       /\ \A i, j \in 1 .. Len(t_calls) :
             (i < j /\ t_calls[i] \in StartStepNames /\ t_calls[i] \in t_raised) =>
                 t_calls[j] \notin StartStepNames
       /\ StartSucceeded => t_raised = {}

TranslationFailed == kind = "tap" /\ "TranslatePID" \in t_raised

\* C18: when the translation of the PID fails (status other than 0, or audio
\* object 0), the start makes no further call (no tap, aggregate device or
\* IOProc is created), the backend is not running and holds no handle, start
\* returns its error, and a start called after that enters the steps again.
ClaimC18 ==
    [][ /\ TranslationFailed' =>
              /\ t_calls' = <<"TranslatePID">>
              /\ ~is_running'
              /\ HandlesCleared'
              /\ UNCHANGED <<os_taps, os_aggs, os_ioprocs, created>>
              /\ t_pc' = "idle" => t_ret' = "start_error"
        /\ (TranslationFailed /\ TapIdle /\ starts' # starts) => t_pc' = "translate"
      ]_vars

\* the first start has failed at the translation and nothing was ever created
WitnessC18 ==
    /\ TranslationFailed
    /\ TapIdle
    /\ t_ret = "start_error"
    /\ starts = 1
    /\ created = {}

\* ------------------------------------------- ScreenCaptureBackend helper
\* the helper of the first session has exited without having written a byte
\* and the reader thread has seen the end of the pipe
HelperExitedBeforeFirstByte ==
    /\ kind = "sc"
    /\ starts = 1
    /\ stops = 0
    /\ produced = 0
    /\ sc_process # None
    /\ helper[sc_process] = "exited"
    /\ rdr_pc[sc_process] = "done"

\* C19: when the helper exited before its first byte the session is reported
\* unavailable: it is not the case that start has succeeded, the backend is
\* still in the running state and a read goes on waiting one timeout period
\* after another.
ClaimC19 ==
    HelperExitedBeforeFirstByte =>
       ~ /\ sc_ret = "start_ok"
         /\ sc_running
         /\ sc_rd_pc = "loop"
         /\ sc_rd_timeouts = MaxReadTimeouts

StopReturned == kind = "sc" /\ sc_pc = "idle" /\ sc_ret = "stop_done"

\* C20: stop on a running backend sends terminate, waits, sends kill only
\* when the helper has not exited by the end of the wait, and returns after
\* the helper has exited: while stop waits the backend is already not running
\* and terminate is the only call made; the wait step sends kill exactly when
\* the helper is still alive; when stop has returned the backend is not
\* running and no helper of the instance is alive.
ClaimC20 ==
    [][ kind = "sc" =>
          /\ sc_pc' = "st_wait" => (~sc_running' /\ sc_calls' = <<"terminate">>)
          /\ (sc_pc = "st_wait" /\ sc_pc' # "st_wait") =>
                /\ helper[sc_process] = "exited" => sc_calls' = <<"terminate", "wait">>
                /\ helper[sc_process] = "alive" =>
                       sc_calls' = <<"terminate", "wait", "kill", "wait">>
                /\ helper'[sc_process] = "exited"
          /\ StopReturned' =>
                /\ ~sc_running'
                /\ \A i \in Sessions : helper'[i] # "alive"
                /\ sc_calls'[1] = "terminate"
      ]_vars

\* stop has returned after it had to kill the helper
WitnessC20 ==
    /\ StopReturned
    /\ sc_calls = <<"terminate", "wait", "kill", "wait">>
    /\ helper[sc_process] = "exited"

\* C21: no partial frame is delivered: the chunk passed to the callback and
\* the bytes returned by read have a length that is a whole multiple of
\* channels * sample_width, whatever sizes the reads from the pipe return.
ClaimC21 ==
    kind = "sc" =>
       /\ sc_cb_chunk.len % BytesPerFrame = 0
       /\ TotalLen(sc_rd_ret) % BytesPerFrame = 0

\* C22: the frame count passed with a chunk to the user callback is the
\* chunk's length in bytes divided by the bytes per frame (channels * bytes per
\* sample), in the ScreenCaptureBackend reader and in the ProcessAudioTap
\* worker.
ClaimC22 ==
    /\ (kind = "sc" /\ sc_cb_chunk # NoChunk) =>
           sc_cb_frames = sc_cb_chunk.len \div BytesPerFrame
    /\ (kind = "co" /\ co_cb_last # None) =>
           co_cb_frames = CoChunkLen(co_cb_last) \div BytesPerFrame

\* --------------------------------------------------------- WindowsBackend
\* C23: WindowsBackend holds a converter exactly when the native format
\* differs from the requested one in sample rate, channel count or sample
\* encoding (an encoding difference of equal width included); with equal
\* formats read returns the native bytes unchanged.
ClaimC23 ==
    LET HoldsConverter == w_native_converter \/ w_converter # <<>>
        FormatsDiffer == \/ w_env.native_rate # w_env.rate
                         \/ w_env.native_channels # w_env.channels
                         \/ w_env.native_enc # w_env.sample_format
    IN
    kind = "win" =>
       /\ HoldsConverter <=> FormatsDiffer
       /\ (~FormatsDiffer /\ w_ret.op = "read") =>
             /\ ~w_ret.native_converted
             /\ ~w_ret.converted
             /\ w_ret.len = w_ret.native

\* C26: get_format reports the requested format, not the native one: the
\* stored output format and every result of get_format carry the requested
\* rate, channels, width (as bits) and encoding, with or without a converter
\* and after any start, read or stop.
ClaimC26 ==
    kind = "win" =>
       /\ w_output_format.sample_rate = w_env.rate
       /\ w_output_format.channels = w_env.channels
       /\ w_output_format.bits_per_sample = EncWidth(w_env.sample_format) * 8
       /\ w_output_format.sample_format = w_env.sample_format
       /\ w_ret.op = "get_format" => w_ret.res = w_output_format

\* get_format returned on a started backend that converts from a native
\* format of another rate
WitnessC26 ==
    /\ kind = "win"
    /\ w_started
    /\ w_ret.op = "get_format"
    /\ w_converter # <<>>
    /\ w_env.native_rate # w_env.rate
    /\ w_ret.res.sample_rate = w_env.rate

\* ---------------------------------------------------- NativeAudioConverter
\* bytes of one source frame of a convert_to_fixed_format call
SrcFrameSize(r) ==
    r.channels * (IF r.src_format = "int16" THEN Int16Width ELSE Float32Width)

\* C24: convert_to_fixed_format rejects every buffer whose length is not a
\* multiple of the source frame size with ValueError, for every source rate
\* and every supported source format.
ClaimC24 ==
    (kind = "conv" /\ cv_ret.op = "convert_to_fixed_format"
       /\ cv_ret.src_format \in {"int16", "float32"}
       /\ cv_ret.n % SrcFrameSize(cv_ret) # 0)
    => cv_ret.res.err = "ValueError"

\* C25: convert_to_fixed_format of a whole-frame buffer returns 48 kHz /
\* 2 channel / float32 data: input_frames * 48000 / src_rate frames of 8
\* bytes, within one frame of rounding.
ClaimC25 ==
    (kind = "conv" /\ cv_ret.op = "convert_to_fixed_format"
       /\ cv_ret.src_format \in {"int16", "float32"}
       /\ cv_ret.n % SrcFrameSize(cv_ret) = 0)
    => /\ cv_ret.res.err = "none"
       /\ cv_ret.res.len % (FixedChannels * Float32Width) = 0
       /\ (cv_ret.res.len \div (FixedChannels * Float32Width)) * cv_ret.src_rate
             >= ((cv_ret.n \div SrcFrameSize(cv_ret)) * FixedRate) - cv_ret.src_rate
       /\ (cv_ret.res.len \div (FixedChannels * Float32Width)) * cv_ret.src_rate
             <= ((cv_ret.n \div SrcFrameSize(cv_ret)) * FixedRate) + cv_ret.src_rate

\* C28: HIGH_QUALITY without the high-quality backend degrades to
\* LOW_LATENCY: the effective quality is HIGH_QUALITY exactly when it was
\* requested and the backend is available, a LOW_LATENCY request stays
\* LOW_LATENCY, and every resampling uses the effective quality.
ClaimC28 ==
    kind = "conv" =>
       /\ cv_quality = "high_quality"
             <=> (cv_env.requested = "high_quality" /\ cv_env.hq)
       /\ cv_quality \in Qualities
       /\ cv_quality_str = cv_quality
       /\ (cv_ret.op # "none" /\ cv_ret.quality # "unused")
             => cv_ret.quality = cv_quality

\* HIGH_QUALITY was requested without the backend and a resampling ran
WitnessC28 ==
    /\ kind = "conv"
    /\ cv_env.requested = "high_quality" /\ ~cv_env.hq
    /\ cv_ret.op = "resample" /\ cv_ret.res.err = "none" /\ cv_ret.res.len > 0
    /\ cv_ret.src_rate # cv_ret.dst_rate
    /\ cv_ret.quality = "low_latency"

\* ------------------------------------------------------------- get_backend
\* C27: get_backend selects by platform: WindowsBackend on Windows; on macOS
\* ScreenCaptureBackend when it is available and otherwise
\* MacOSNativeBackend; on every other platform, Linux included, it raises
\* NotImplementedError and returns no backend.
ClaimC27 ==
    (kind = "sel" /\ g_ret.op = "get_backend") =>
       /\ g_env.system = "Windows" => g_ret.res.backend = "WindowsBackend"
       /\ (g_env.system = "Darwin" /\ g_env.sc_available /\ g_env.sc_new = "ok")
             => g_ret.res.backend = "ScreenCaptureBackend"
       /\ (g_env.system = "Darwin" /\ ~g_env.sc_available
             /\ NewMacOSNative(g_env).err = "none")
             => g_ret.res.backend = "MacOSNativeBackend"
       /\ g_env.system \notin {"Windows", "Darwin"}
             => (g_ret.res.backend = "none" /\ g_ret.res.err = "NotImplementedError")

\* C29: MacOSNativeBackend passes the version gate exactly when (major,
\* minor) is at least (14, 4) in lexicographic order, a missing minor part
\* counting as 0; an unparseable version is refused; and a refused
\* construction has created no Core Audio object and holds no handle.
ClaimC29 ==
    LET Parseable == \A i \in 1 .. Len(g_env.version) : g_env.version[i] # None
    IN
    (kind = "sel" /\ g_ret.op = "MacOSNativeBackend" /\ g_env.pyobjc) =>
       /\ g_ret.res.gate \in {"passed", "refused"}
       /\ Parseable =>
             (g_ret.res.gate = "passed"
                <=> \/ g_env.version[1] > 14
                    \/ /\ g_env.version[1] = 14
                       /\ Len(g_env.version) > 1
                       /\ g_env.version[2] >= 4)
       /\ ~Parseable => g_ret.res.gate = "refused"
       /\ g_ret.res.gate = "refused" =>
             /\ g_ret.res.backend = "none" /\ g_ret.res.err = "RuntimeError"
             /\ created = {} /\ os_taps = {} /\ os_aggs = {} /\ os_ioprocs = {}
             /\ HandlesCleared

\* macOS 15.0 passed the gate although its minor part is below 4
WitnessC29 ==
    /\ kind = "sel"
    /\ g_ret.op = "MacOSNativeBackend"
    /\ g_env.pyobjc
    /\ g_env.version = <<15, 0>>
    /\ g_ret.res.gate = "passed"

\* ------------------------------------------------- aggregate description
\* C30: the main sub-device UID and the sub-device list entry of the
\* aggregate-device description are the UID of the system's current default
\* output device, whichever device that is.
ClaimC30 ==
    (kind = "tap" /\ os_agg_desc # <<>>) =>
       /\ os_agg_desc[1].main_sub_device = os_default_uid
       /\ os_agg_desc[1].sub_device_list = <<os_default_uid>>

\* ------------------------------------------- ProcessAudioTap start / stop
CoStopReturned == kind = "co" /\ co_pc = "idle" /\ co_ret = "stop_done"

\* C11: stop always returns and always releases the backend: the flag is set
\* while stop is in progress, the one join and the release that follows it can
\* always be taken (whatever the worker is doing), and when stop has returned
\* the flag is set, no thread is recorded and the stop has called exactly
\* stop_capture and then cleanup on the backend, also when stop_capture raised.
ClaimC11 ==
    kind = "co" =>
       /\ co_pc = "join" => (stop_event /\ co_calls = <<>> /\ ENABLED CoStopJoin)
       /\ co_pc = "release" => (stop_event /\ co_calls = <<>> /\ ENABLED CoStopRelease)
       /\ CoStopReturned =>
             /\ stop_event
             /\ thread = None
             /\ co_calls = <<"stop_capture", "cleanup">>

\* stop has returned while a worker is still inside the callback and
\* stop_capture raised
WitnessC11 ==
    /\ CoStopReturned
    /\ "stop_capture" \in lb_raised
    /\ lb_calls["cleanup"] = 1
    /\ \E i \in Sessions : wk_pc[i] = "callback" /\ wk_stopped[i]

CoStartFailed == kind = "co" /\ co_pc = "idle" /\ co_ret = "start_error"

\* C12: when start has raised its error, no worker was spawned, no thread is
\* recorded and nothing acquired by the start is still held: a loopback that
\* initialize() opened before start_capture() failed has been cleaned up.
ClaimC12 ==
    CoStartFailed =>
       /\ thread = None
       /\ wk_pc[starts] = "none"
       /\ ~lb_open
       /\ ~lb_capturing

\* C14: a session cannot be restarted on the same coordinator: a start called
\* after a session was started and stopped (a worker was spawned before and no
\* thread is recorded) makes no call on the backend, spawns no worker and
\* records no thread.
ClaimC14 ==
    [][ (kind = "co" /\ starts' # starts /\ WorkerSpawned /\ thread = None) =>
           UNCHANGED <<lb_calls, lb_open, lb_capturing, wk_pc, thread, stop_event>>
      ]_vars

\* ------------------------------------------------ ProcessAudioTap._worker
\* worker i leaves the given position in this step
WorkerLeaves(i, pos) == kind = "co" /\ wk_pc[i] = pos /\ wk_pc'[i] # pos

\* C13: an exception on the delivery path stays inside the worker: a read or
\* a callback that raises changes nothing the caller of start / stop sees and
\* leaves the worker alive; the chunk of a callback that raised is dropped
\* (it is not passed on to the output queue) and the worker goes back to the
\* loop test for the next read.
ClaimC13 ==
    [][ \A i \in Sessions :
          /\ (WorkerLeaves(i, "read") /\ faults' # faults) =>
                /\ wk_pc'[i] = "check"
                /\ UNCHANGED <<co_pc, co_ret, thread, async_queue, co_cb_last>>
          /\ (WorkerLeaves(i, "callback") /\ wk_cb_raised'[i]) =>
                /\ Alive(i)'
                /\ UNCHANGED <<co_pc, co_ret, thread, async_queue>>
          /\ (WorkerLeaves(i, "put") /\ wk_cb_raised[i]) =>
                /\ wk_pc'[i] = "check"
                /\ UNCHANGED <<co_pc, co_ret, thread, async_queue>>
      ]_vars

\* C15: each chunk goes to exactly one sink: a worker that holds a chunk calls
\* the callback only when one is configured and then does not enqueue the
\* chunk; it enqueues the chunk only when no callback is configured
\* (ProcessAudioTap._worker and ScreenCaptureBackend._reader_worker).
ClaimC15 ==
    [][ /\ \A i \in Sessions :
             /\ WorkerLeaves(i, "callback") => on_data
             /\ (WorkerLeaves(i, "put") /\ on_data) => async_queue' = async_queue
             /\ (WorkerLeaves(i, "put") /\ ~on_data) =>
                    async_queue' = Append(async_queue, wk_data[i])
        /\ (kind = "sc" /\ sc_cb_chunk' # sc_cb_chunk) =>
               (sc_callback # None /\ sc_queue' = sc_queue)
        /\ (kind = "sc" /\ Len(sc_queue') > Len(sc_queue)) =>
               (sc_callback = None /\ sc_cb_chunk' = sc_cb_chunk)
      ]_vars

\* ------------------------------------------------ concurrency and sessions
\* C33: at most one worker thread of a ProcessAudioTap is in its loop
\* reading from the backend at any time, whatever starts and stops were
\* called.
ClaimC33 ==
    kind = "co" => Cardinality({i \in Sessions : wk_pc[i] = "read"}) <= 1

\* C34: every chunk MacOSNativeBackend.read returns was enqueued by the
\* IOProc of the current session, that is after the start that began it:
\* no chunk left over from before that start is returned.
ClaimC34 ==
    [][(kind = "tap" /\ is_running /\ audio_queue # <<>>
          /\ t_read' = QueueGet(audio_queue)
          /\ audio_queue' = QueueRest(audio_queue))
       => QueueGet(audio_queue) > os_session_base]_vars

\* C35: while a ScreenCaptureBackend session started without on_data is
\* running (the stored callback, if any, is that of another start), a reader
\* thread that delivers a chunk does not invoke a callback.
ClaimC35 ==
    [][(kind = "sc" /\ sc_running /\ sc_callback # sc_process
          /\ \E i \in Sessions : rdr_pc[i] = "deliver" /\ rdr_pc'[i] = "check")
       => UNCHANGED scCb]_vars

\* C36: ScreenCaptureBackend.read loses no audio: a read returns every byte
\* it took from the queue, so the results of successive reads concatenate to
\* the chunks the reader enqueued.
ClaimC36 ==
    [][(kind = "sc" /\ sc_rd_pc = "loop" /\ sc_rd_pc' = "idle")
       => TotalLen(sc_rd_ret') = TotalLen(sc_rd_chunks)]_vars

\* C37: the iteration of iter_chunks ends only after the worker of the
\* running session has exited: when the consumer takes a sentinel from the
\* queue, the recorded worker thread, if there is one, is done.
ClaimC37 ==
    [][(kind = "co" /\ async_queue # <<>> /\ QueueGet(async_queue) = None
          /\ async_queue' = QueueRest(async_queue) /\ thread # None)
       => wk_pc[thread] = "done"]_vars

\* C38: on macOS, when ScreenCaptureBackend is reported available but its
\* constructor raises (no bundle id, or no helper binary), get_backend
\* returns MacOSNativeBackend when that one can be constructed.
ClaimC38 ==
    (kind = "sel" /\ g_ret.op = "get_backend" /\ g_env.system = "Darwin"
       /\ g_env.sc_available /\ g_env.sc_new # "ok"
       /\ NewMacOSNative(g_env).err = "none")
    => (g_ret.res.backend = "MacOSNativeBackend" /\ g_ret.res.err = "none")

ClaimC31 ==
    (kind = "vad" /\ v_quiet_run # None) =>
       (v_is_speech <=> v_quiet_run <= v_h)

\* the hangover of a detector with h > 0 has just expired, on frame h + 1
WitnessC31 ==
    /\ kind = "vad"
    /\ v_h > 0
    /\ v_quiet_run = v_h + 1
    /\ ~v_is_speech

\* C32: a FilterChain always holds at least one filter; FilterChain([]) and
\* remove_filter on a chain of one filter raise ValueError and leave the
\* chain as it was.
ClaimC32 ==
    kind = "chain" =>
       /\ fc_built => Len(fc_chain) >= 1
       /\ ~fc_built => fc_chain = <<>>
       /\ (fc_ret.op = "FilterChain" /\ fc_ret.n = 0)
             => (fc_ret.err = "ValueError" /\ ~fc_built)
       /\ (fc_ret.op = "remove_filter" /\ fc_ret.n = 1) => fc_ret.err = "ValueError"
       /\ fc_ret.err = "ValueError" => fc_chain = fc_before

\* remove_filter was refused on a chain of one filter
WitnessC32 ==
    /\ kind = "chain"
    /\ fc_built
    /\ fc_ret.op = "remove_filter"
    /\ fc_ret.err = "ValueError"
    /\ Len(fc_chain) = 1
    /\ fc_before = fc_chain

\* ========================================================= specifications
InitObjects ==
    InitTap /\ InitSC /\ InitCo /\ InitConv /\ InitWin /\ InitSel /\ InitFlt

InitTapRun == InitEnv("tap") /\ InitObjects

InitScRun == InitEnv("sc") /\ InitObjects

InitCoRun == InitEnv("co") /\ InitObjects

Init == InitTapRun \/ InitScRun \/ InitCoRun

Next == NextTap \/ NextSC \/ NextCo

SpecTap == InitTapRun /\ [][NextTap]_vars

SpecSC == InitScRun /\ [][NextSC]_vars

SpecCo == InitCoRun /\ [][NextCo]_vars

InitConvRun == InitEnv("conv") /\ InitObjects

SpecConv == InitConvRun /\ [][NextConv]_vars

InitWinRun == InitEnv("win") /\ InitObjects

SpecWin == InitWinRun /\ [][NextWin]_vars

InitSelRun == InitEnv("sel") /\ InitObjects

SpecSel == InitSelRun /\ [][NextSel]_vars

InitFltRun == (InitEnv("vad") \/ InitEnv("chain")) /\ InitObjects

SpecFlt == InitFltRun /\ [][NextFlt]_vars

Spec == Init /\ [][Next]_vars

====
